---- MODULE Spec2Model ----
(***************************************************************************)
(* Verification model of prolog_llm_router (rust_sketch).                  *)
(*                                                                         *)
(*   SpecParse  - agent.rs parse_agent_action, one outer-loop iteration    *)
(*                per step, over bounded response texts                    *)
(*   SpecAgent  - agent.rs run_agent_loop with call_llm_for_action and     *)
(*                execute_tool                                             *)
(*   SpecAgentVerbose - the same loop with config.verbose set              *)
(*   SpecEngine - the engines behind prolog.rs and scryer.rs decide calls  *)
(*   SpecStore  - tauri-app lib.rs conversation store and send_message     *)
(*   SpecDate   - types.rs resolve_relative_date and resolve_date_range    *)
(*   SpecEncode - types.rs to_prolog_dict and to_prolog_list of Entities   *)
(*   SpecRoute  - main.rs single-shot routing through the Native strategy  *)
(*                (router.rs), Engine-A (prolog.rs) and Engine-B           *)
(*                (scryer.rs), followed by run_tool                        *)
(*                                                                         *)
(* A text is a sequence of one-character tokens.  The tokens "F", "A",     *)
(* "T", "W", "U" abbreviate the member lists of the three AgentAction      *)
(* shapes (see TokenText); they contain an even number of double quotes    *)
(* and no brace or backslash, so the brace balancer's state is the same    *)
(* before and after each of them.                                          *)
(***************************************************************************)
EXTENDS Integers, Sequences, FiniteSets, TLC

VARIABLES
    \* ---- parse_agent_action (agent.rs 264-326)
    s,              \* the trimmed text
    p_pc,           \* "idle" | "fast" | "scan" | "done"
    search_start,   \* 0-based offset where the next find('{') starts
    last_valid,     \* Option<AgentAction>
    p_result,       \* Result<AgentAction>
    cands,          \* history: the candidates the outer loop has met
    \* ---- run_agent_loop (agent.rs 456-525)
    a_pc,           \* "idle" | "loop" | "done" | "panic"
    query,          \* the user query
    system_prompt,  \* what load_agent_prompt returned
    messages,       \* state.messages
    response_id,    \* state.response_id
    turn_count,     \* state.turn_count
    max_turns,      \* state.max_turns
    a_result,       \* Result<String> returned by run_agent_loop
    requests,       \* history: the LlmRequest values handed to call_llm
    tool_calls,     \* history: the (tool, args, success, output) of execute_tool
    last_action,    \* history: what the last call_llm_for_action returned
    \* ---- single-shot routing (main.rs 1061-1168)
    r_pc,           \* "idle" | "start" | "route" | "done"
    payload,        \* the IntentPayload after overlays and date resolution
    raw_date,       \* history: entities.date as it was before line 1092
    weather_configured, \* apple_weather::is_configured()
    probe,          \* history: what the rule engine answered
    decision,       \* Option<Decision>
    tool_result,    \* Option<String>: what run_tool returned
    printed,        \* what main printed for an Unknown intent
    \* ---- one call of a pure function of types.rs (encoders, date resolvers)
    f_pc,           \* "idle" | "call" | "done"
    f_input,        \* the arguments of the call
    f_output,       \* what the call returned
    \* ---- rule engines across decide calls (prolog.rs 10-37, scryer.rs 13-28)
    ENGINE,         \* the static OnceLock<Engine> of prolog.rs
    machines,       \* the number of engine instances built so far
    decides,        \* history: one record per decide call
    \* ---- the GUI host's conversation store (tauri-app lib.rs)
    store,          \* ConversationStore.conversations behind the Mutex
    disk,           \* conversations.json in the app data dir
    mutex,          \* the holder of the Mutex<ConversationStore>, if any
    tasks,          \* the send_message calls in flight
    sends,          \* the number of send_message calls started
    committed       \* history: per id, the messages upserted since its last delete

pvars == <<s, p_pc, search_start, last_valid, p_result, cands>>
rvars == <<r_pc, payload, raw_date, weather_configured, probe, decision,
           tool_result, printed>>
avars == <<a_pc, query, system_prompt, messages, response_id, turn_count, max_turns,
           a_result, requests, tool_calls, last_action>>
fvars == <<f_pc, f_input, f_output>>
evars == <<ENGINE, machines, decides>>
svars == <<store, disk, mutex, tasks, sends, committed>>
hvars == <<evars, svars>>

----------------------------------------------------------------------------
(* Bounds *)

\* a parser input is the concatenation of at most MaxPieces pieces
MaxPieces == 3
\* max_turns is drawn from 0..MaxTurnsBound
MaxTurnsBound == 3
\* a payload fills at most MaxEntities entity slots, CLI overlays included
MaxEntities == 3
\* the largest N of the date texts "next N days"
MaxRangeDays == 5
\* the number of consecutive days, from Monday 2026-01-05, taken as today
MaxFromDays == 7
\* the number of Entities slots set in an encoded value
MaxEncoded == 2
\* decide calls made in one process
MaxDecides == 3
\* send_message calls started
MaxSends == 2
\* events a run sends before it returns
MaxEvents == 1

----------------------------------------------------------------------------
(* Texts *)

QT == "\""
BS == "\\"

CallTokens == {"T", "W", "U"}
MemberTokens == {"F", "A"} \cup CallTokens

\* what each token stands for in the real text
TokenText(c) ==
    CASE c = "F" -> "\"action\":\"final_answer\",\"answer\":\"hi\""
      [] c = "A" -> "\"action\":\"ask_user\",\"question\":\"Which city?\""
      [] c = "T" -> "\"action\":\"call_tool\",\"tool\":\"search_notes\",\"args\":"
      [] c = "W" -> "\"action\":\"call_tool\",\"tool\":\"get_apple_weather\",\"args\":"
      [] c = "U" -> "\"action\":\"call_tool\",\"tool\":\"get_weather\",\"args\":"
      [] OTHER -> c

ToolOf(c) ==
    CASE c = "T" -> "search_notes"
      [] c = "W" -> "get_apple_weather"
      [] OTHER -> "get_weather"

None == [some |-> FALSE]
Some(v) == [some |-> TRUE, val |-> v]

RECURSIVE TrimStart(_)
TrimStart(t) == IF t # <<>> /\ Head(t) = " " THEN TrimStart(Tail(t)) ELSE t

RECURSIVE TrimEnd(_)
TrimEnd(t) ==
    IF t # <<>> /\ t[Len(t)] = " " THEN TrimEnd(SubSeq(t, 1, Len(t) - 1)) ELSE t

\* str::trim
Trim(t) == TrimEnd(TrimStart(t))

\* &t[from..to] with 0-based byte offsets, to exclusive
Slice(t, from, to) == SubSeq(t, from + 1, to)

----------------------------------------------------------------------------
(* serde_json::from_str::<AgentAction> on a token text.  Indices here are  *)
(* 1-based positions; 0 is a parse failure.                                *)

RECURSIVE SkipWs(_, _)
SkipWs(t, i) == IF i <= Len(t) /\ t[i] = " " THEN SkipWs(t, i + 1) ELSE i

\* i is just past the opening quote; the position after the closing quote
RECURSIVE StringEnd(_, _)
StringEnd(t, i) ==
    IF i > Len(t) THEN 0
    ELSE IF t[i] = QT THEN i + 1
    ELSE IF t[i] = BS
         THEN IF i + 1 <= Len(t) /\ t[i + 1] \in {QT, BS}
              THEN StringEnd(t, i + 2) ELSE 0
    ELSE IF t[i] \in MemberTokens THEN 0
    ELSE StringEnd(t, i + 1)

RECURSIVE ValueEnd(_, _)
RECURSIVE ObjectEnd(_, _)

\* a JSON value starting at or after i: a string or an object
ValueEnd(t, i) ==
    LET j == SkipWs(t, i) IN
    IF j > Len(t) THEN 0
    ELSE IF t[j] = QT THEN StringEnd(t, j + 1)
    ELSE IF t[j] = "{" THEN ObjectEnd(t, j)
    ELSE 0

\* t[i] = "{": the position after the object's closing brace
ObjectEnd(t, i) ==
    LET j == SkipWs(t, i + 1) IN
    IF j > Len(t) THEN 0
    ELSE IF t[j] = "}" THEN j + 1
    ELSE IF t[j] \in {"F", "A"}
         THEN LET k == SkipWs(t, j + 1) IN
              IF k <= Len(t) /\ t[k] = "}" THEN k + 1 ELSE 0
    ELSE IF t[j] \in CallTokens
         THEN LET v == ValueEnd(t, j + 1) IN
              IF v = 0 THEN 0
              ELSE LET k == SkipWs(t, v) IN
                   IF k <= Len(t) /\ t[k] = "}" THEN k + 1 ELSE 0
    ELSE 0

\* serde_json::to_string of the value at i (BTreeMap key order)
RECURSIVE StringText(_, _)
StringText(t, i) ==
    IF t[i] = QT THEN QT
    ELSE IF t[i] = BS THEN t[i] \o t[i + 1] \o StringText(t, i + 2)
    ELSE t[i] \o StringText(t, i + 1)

RECURSIVE ValueText(_, _)
ValueText(t, i) ==
    LET j == SkipWs(t, i) IN
    IF t[j] = QT THEN QT \o StringText(t, j + 1)
    ELSE LET m == SkipWs(t, j + 1) IN
         IF t[m] = "}" THEN "{}"
         ELSE IF t[m] \in {"F", "A"} THEN "{" \o TokenText(t[m]) \o "}"
         ELSE "{\"action\":\"call_tool\",\"args\":" \o ValueText(t, m + 1)
              \o ",\"tool\":\"" \o ToolOf(t[m]) \o "\"}"

\* Result<AgentAction, serde_json::Error> as an Option
FromStr(t) ==
    LET i == SkipWs(t, 1) IN
    IF i > Len(t) \/ t[i] # "{" THEN None
    ELSE LET e == ObjectEnd(t, i)
             m == SkipWs(t, i + 1)
         IN  IF e = 0 \/ SkipWs(t, e) # Len(t) + 1 THEN None
             ELSE IF t[m] = "F"
                  THEN Some([action |-> "final_answer", answer |-> "hi"])
             ELSE IF t[m] = "A"
                  THEN Some([action |-> "ask_user", question |-> "Which city?"])
             ELSE IF t[m] \in CallTokens
                  THEN Some([action |-> "call_tool", tool |-> ToolOf(t[m]),
                             args |-> ValueText(t, m + 1)])
             ELSE None

----------------------------------------------------------------------------
(* parse_agent_action, agent.rs 264-326 *)

\* s[from..].find('{'): the 0-based offset of the first "{" at or after from
RECURSIVE FindBrace(_, _)
FindBrace(t, from) ==
    IF from >= Len(t) THEN None
    ELSE IF t[from + 1] = "{" THEN Some(from)
    ELSE FindBrace(t, from + 1)

\* the for loop of lines 287-311 from offset i on; the value of `end`
RECURSIVE BalanceFrom(_, _, _, _, _)
BalanceFrom(t, i, in_str, escape, depth) ==
    IF i >= Len(t) THEN None
    ELSE LET ch == t[i + 1] IN
         IF in_str
         THEN IF escape THEN BalanceFrom(t, i + 1, TRUE, FALSE, depth)
              ELSE IF ch = BS THEN BalanceFrom(t, i + 1, TRUE, TRUE, depth)
              ELSE IF ch = QT THEN BalanceFrom(t, i + 1, FALSE, FALSE, depth)
              ELSE BalanceFrom(t, i + 1, TRUE, escape, depth)
         ELSE IF ch = QT THEN BalanceFrom(t, i + 1, TRUE, escape, depth)
              ELSE IF ch = "{" THEN BalanceFrom(t, i + 1, FALSE, escape, depth + 1)
              ELSE IF ch = "}"
                   THEN IF depth - 1 = 0 THEN Some(i + 1)
                        ELSE BalanceFrom(t, i + 1, FALSE, escape, depth - 1)
              ELSE BalanceFrom(t, i + 1, FALSE, escape, depth)

\* mutant: braces are counted inside string literals too
RECURSIVE BalanceIgnoringStrings(_, _, _)
BalanceIgnoringStrings(t, i, depth) ==
    IF i >= Len(t) THEN None
    ELSE IF t[i + 1] = "{" THEN BalanceIgnoringStrings(t, i + 1, depth + 1)
    ELSE IF t[i + 1] = "}"
         THEN IF depth - 1 = 0 THEN Some(i + 1)
              ELSE BalanceIgnoringStrings(t, i + 1, depth - 1)
    ELSE BalanceIgnoringStrings(t, i + 1, depth)

MatchEndIgnoringStrings(t, start) == BalanceIgnoringStrings(t, start, 0)

\* lines 282-311: the matching end of the candidate that starts at start
MatchEnd(t, start) == BalanceFrom(t, start, FALSE, FALSE, 0)

\* mutant: the scan goes on one character past every "{", balanced or not
ScanIterRescans(t, start, lv) ==
    LET end == MatchEnd(t, start) IN
    IF end.some
    THEN LET parsed == FromStr(Slice(t, start, end.val)) IN
         [last_valid   |-> IF parsed.some THEN parsed ELSE lv,
          search_start |-> start + 1,
          cand         |-> [start |-> start, end |-> end, action |-> parsed]]
    ELSE [last_valid   |-> lv,
          search_start |-> start + 1,
          cand         |-> [start |-> start, end |-> None, action |-> None]]

\* mutant: the first valid action is kept
ScanIterFirstWins(t, start, lv) ==
    LET end == MatchEnd(t, start) IN
    IF end.some
    THEN LET parsed == FromStr(Slice(t, start, end.val)) IN
         [last_valid   |-> IF lv.some THEN lv ELSE parsed,
          search_start |-> end.val,
          cand         |-> [start |-> start, end |-> end, action |-> parsed]]
    ELSE [last_valid   |-> lv,
          search_start |-> start + 1,
          cand         |-> [start |-> start, end |-> None, action |-> None]]

\* mutant: the scan stays on a "{" that has no matching "}"
ScanIterStays(t, start, lv) ==
    LET end == MatchEnd(t, start) IN
    IF end.some
    THEN LET parsed == FromStr(Slice(t, start, end.val)) IN
         [last_valid   |-> IF parsed.some THEN parsed ELSE lv,
          search_start |-> end.val,
          cand         |-> [start |-> start, end |-> end, action |-> parsed]]
    ELSE [last_valid   |-> lv,
          search_start |-> start,
          cand         |-> [start |-> start, end |-> None, action |-> None]]

\* lines 313-322: one iteration of the while loop, start being the "{" found
ScanIter(t, start, lv) ==
    LET end == MatchEnd(t, start) IN
    IF end.some
    THEN LET parsed == FromStr(Slice(t, start, end.val)) IN
         [last_valid   |-> IF parsed.some THEN parsed ELSE lv,
          search_start |-> end.val,
          cand         |-> [start |-> start, end |-> end, action |-> parsed]]
    ELSE [last_valid   |-> lv,
          search_start |-> start + 1,
          cand         |-> [start |-> start, end |-> None, action |-> None]]

\* lines 274-325: the while loop and the final ok_or_else
RECURSIVE ScanLoop(_, _, _)
ScanLoop(t, from, lv) ==
    LET b == FindBrace(t, from) IN
    IF ~b.some THEN lv
    ELSE LET it == ScanIter(t, b.val, lv) IN
         ScanLoop(t, it.search_start, it.last_valid)

\* lines 267-272: the fast path succeeded
FastPath(t) ==
    IF t # <<>> /\ t[1] = "{" /\ t[Len(t)] = "}" THEN FromStr(t) ELSE None

\* the whole function: Some(action) is Ok(action), None is the Err of line 325
parse_agent_action(text) ==
    LET t == Trim(text) IN
    IF FastPath(t).some THEN FastPath(t) ELSE ScanLoop(t, 0, None)

\* ---- step by step

Singles == {"{", "}", QT, BS, "x", " ", "F", "A", "T"}

Pieces ==
    {<<c>> : c \in Singles}
    \cup {<<"{", "F", "}">>, <<"{", "A", "}">>, <<"{", "T", "{", "}", "}">>,
          <<"{", "T", QT, "}", QT, "}">>, <<"{", "T", QT, BS, QT, "{", QT, "}">>,
          <<"{", QT, BS, BS, QT, "}">>}

RECURSIVE Concat(_)
Concat(ps) == IF ps = <<>> THEN <<>> ELSE Head(ps) \o Concat(Tail(ps))

Texts == {Concat(ps) : ps \in UNION {[1..n -> Pieces] : n \in 0..MaxPieces}}

AgentIdle ==
    /\ a_pc = "idle" /\ query = "" /\ system_prompt = ""
    /\ messages = <<>> /\ response_id = None
    /\ turn_count = 0 /\ max_turns = 0 /\ a_result = None
    /\ requests = <<>> /\ tool_calls = <<>> /\ last_action = None

RouteIdle ==
    /\ r_pc = "idle" /\ payload = None /\ raw_date = None
    /\ weather_configured = FALSE /\ probe = None /\ decision = None
    /\ tool_result = None /\ printed = None

FnIdle == f_pc = "idle" /\ f_input = None /\ f_output = None

\* no decide call was made, no GUI host runs
HostIdle ==
    /\ ENGINE = None /\ machines = 0 /\ decides = <<>>
    /\ store = <<>> /\ disk = <<>> /\ mutex = None /\ tasks = <<>>
    /\ sends = 0 /\ committed = <<>>

ParseInit ==
    /\ s \in {Trim(t) : t \in Texts}
    /\ p_pc = "fast"
    /\ search_start = 0
    /\ last_valid = None
    /\ p_result = None
    /\ cands = <<>>
    /\ AgentIdle
    /\ RouteIdle
    /\ FnIdle
    /\ HostIdle

\* lines 267-276
ParseFast ==
    /\ p_pc = "fast"
    /\ IF FastPath(s).some
       THEN /\ p_result' = [ok |-> TRUE, action |-> FastPath(s).val]
            /\ p_pc' = "done"
       ELSE /\ p_pc' = "scan"
            /\ UNCHANGED p_result
    /\ UNCHANGED <<s, search_start, last_valid, cands>>
    /\ UNCHANGED avars
    /\ UNCHANGED rvars
    /\ UNCHANGED fvars
    /\ UNCHANGED hvars

\* lines 278-323, one iteration
ParseScan ==
    /\ p_pc = "scan"
    /\ FindBrace(s, search_start).some
    /\ LET it == ScanIter(s, FindBrace(s, search_start).val, last_valid) IN
         /\ last_valid' = it.last_valid
         /\ search_start' = it.search_start
         /\ cands' = Append(cands, it.cand)
    /\ UNCHANGED <<s, p_pc, p_result>>
    /\ UNCHANGED avars
    /\ UNCHANGED rvars
    /\ UNCHANGED fvars
    /\ UNCHANGED hvars

\* line 278 finds no "{", line 325
ParseReturn ==
    /\ p_pc = "scan"
    /\ ~FindBrace(s, search_start).some
    /\ p_result' = IF last_valid.some
                   THEN [ok |-> TRUE, action |-> last_valid.val]
                   ELSE [ok |-> FALSE,
                         error |-> "No valid agent action JSON found in LLM output"]
    /\ p_pc' = "done"
    /\ UNCHANGED <<s, search_start, last_valid, cands>>
    /\ UNCHANGED avars
    /\ UNCHANGED rvars
    /\ UNCHANGED fvars
    /\ UNCHANGED hvars

ParseNext == ParseFast \/ ParseScan \/ ParseReturn

----------------------------------------------------------------------------
(* Conversation state, agent.rs 39-143 *)

\* Message::user, lines 66-72
MessageUser(content) == [role |-> "user", content |-> content, tool_result |-> None]

\* Message::assistant, lines 74-80
MessageAssistant(content) ==
    [role |-> "assistant", content |-> content, tool_result |-> None]

\* Message::tool, lines 82-94
MessageTool(tool, success, output) ==
    [role |-> "tool",
     content |-> "Tool " \o tool \o " returned: " \o output,
     tool_result |-> Some([tool |-> tool, success |-> success, output |-> output])]

\* lines 133-138
RolePrefix(role) ==
    CASE role = "user" -> "USER"
      [] role = "assistant" -> "ASSISTANT"
      [] role = "tool" -> "TOOL_RESULT"

\* parts.join("\n\n")
RECURSIVE Join(_, _)
Join(parts, sep) ==
    IF parts = <<>> THEN ""
    ELSE IF Len(parts) = 1 THEN parts[1]
    ELSE parts[1] \o sep \o Join(Tail(parts), sep)

\* mutant: the entries are joined by a single newline
format_for_llm_one_newline(msgs) ==
    Join([i \in 1..Len(msgs) |->
            RolePrefix(msgs[i].role) \o ":\n" \o msgs[i].content], "\n")

\* ConversationState::format_for_llm, lines 129-142
format_for_llm(msgs) ==
    Join([i \in 1..Len(msgs) |->
            RolePrefix(msgs[i].role) \o ":\n" \o msgs[i].content], "\n\n")

\* the LlmRequest of call_llm_for_action, lines 334-344
LlmRequestOf(msgs, prompt) ==
    [input |-> prompt \o "\n\n" \o format_for_llm(msgs),
     instructions |-> None,
     previous_response_id |-> None]

----------------------------------------------------------------------------
(* execute_tool, agent.rs 356-450 *)

NotesTools == {"search_notes", "list_notes", "get_note", "notes_index",
               "notes_tags", "notes_search_by_tag"}

\* what the collaborators of one execute_tool / run_tool call do:
\*   notes_available   apple_notes::is_available()
\*   weather_configured apple_weather::is_configured()
\*   native            outcome of execute_apple_notes / execute_apple_weather
\*   executor          "absent": no ToolExecutor; "no_endpoint": has_endpoint
\*                     is false; "ok" / "err": the outcome of exec.execute
\*                     (Ok(None) cannot follow has_endpoint, tools.rs 286-305)
ToolEnvs ==
    [notes_available : BOOLEAN, weather_configured : BOOLEAN,
     native : {"ok", "err"}, executor : {"absent", "no_endpoint", "ok", "err"}]

ErrText == "timeout"

\* lines 439-447 and main.rs run_tool_stub 883-893
run_tool_stub(tool, args) ==
    CASE tool = "search_notes" -> "[stub] searched notes for: " \o args
      [] tool = "search_files" -> "[stub] searched files for: " \o args
      [] tool = "get_weather" -> "[stub] weather result for: " \o args
      [] tool = "get_apple_weather" -> "[stub] apple weather result for: " \o args
      [] tool = "draft_email" -> "[stub] drafted email with: " \o args
      [] tool = "create_todo" -> "[stub] created todo with: " \o args
      [] OTHER -> "[stub] unknown tool: " \o tool \o " args=" \o args

\* mutant: failures carry the CLI's marker
execute_tool_marker(tool, args, env) ==
    IF tool \in NotesTools /\ env.notes_available
    THEN IF env.native = "ok"
         THEN [success |-> TRUE, output |-> "notes data"]
         ELSE [success |-> FALSE, output |-> "[error] " \o tool \o ": " \o ErrText]
    ELSE IF tool = "get_apple_weather" /\ env.weather_configured
    THEN IF env.native = "ok"
         THEN [success |-> TRUE, output |-> "weather data"]
         ELSE [success |-> FALSE, output |-> "[error] " \o tool \o ": " \o ErrText]
    ELSE IF env.executor = "ok"
    THEN [success |-> TRUE, output |-> "endpoint data"]
    ELSE IF env.executor = "err"
    THEN [success |-> FALSE, output |-> "[error] " \o tool \o ": " \o ErrText]
    ELSE [success |-> TRUE, output |-> run_tool_stub(tool, args)]

\* the (bool, String) execute_tool returns
execute_tool(tool, args, env) ==
    IF tool \in NotesTools /\ env.notes_available
    THEN IF env.native = "ok"
         THEN [success |-> TRUE, output |-> "notes data"]
         ELSE [success |-> FALSE, output |-> "Apple Notes error: " \o ErrText]
    ELSE IF tool = "get_apple_weather" /\ env.weather_configured
    THEN IF env.native = "ok"
         THEN [success |-> TRUE, output |-> "weather data"]
         ELSE [success |-> FALSE, output |-> "Error: " \o ErrText]
    ELSE IF env.executor = "ok"
    THEN [success |-> TRUE, output |-> "endpoint data"]
    ELSE IF env.executor = "err"
    THEN [success |-> FALSE, output |-> "Error: " \o ErrText]
    ELSE [success |-> TRUE, output |-> run_tool_stub(tool, args)]

----------------------------------------------------------------------------
(* run_agent_loop, agent.rs 456-525 *)

Queries == {"weather in NYC?"}
Prompts == {"SYSTEM"}

\* the texts the model may answer with
Responses ==
    { <<"{", "F", "}">>,
      <<"x", " ", "{", "A", "}">>,
      <<"{", "T", "{", "}", "}">>,
      <<"{", "W", "{", "}", "}">>,
      <<"{", "U", QT, "x", QT, "}">>,
      <<"{", "F", "}", "{", "T", "{", "}", "}">>,
      <<"x">>,
      <<"{", "x", "}">> }

\* mutant: an unparseable response is taken as the final answer
ParsedResponseGuess ==
    [text \in Responses |->
        IF parse_agent_action(text).some THEN parse_agent_action(text)
        ELSE Some([action |-> "final_answer", answer |-> "hi"])]

\* call_llm_for_action's line 352 on each of them
ParsedResponse == [text \in Responses |-> parse_agent_action(text)]

ParserIdle ==
    /\ s = <<>> /\ p_pc = "idle" /\ search_start = 0 /\ last_valid = None
    /\ p_result = None /\ cands = <<>>

\* mutant: the ceiling test is off by one
AtMaxTurnsOffByOne(tc, mt) == tc > mt

\* line 471
AtMaxTurns(tc, mt) == tc >= mt

\* lines 461-468
AgentInit ==
    /\ a_pc = "loop"
    /\ query \in Queries
    /\ system_prompt \in Prompts
    /\ max_turns \in 0..MaxTurnsBound
    /\ messages = <<MessageUser(query)>>
    /\ response_id = None
    /\ turn_count = 0
    /\ a_result = None
    /\ requests = <<>>
    /\ tool_calls = <<>>
    /\ last_action = None
    /\ ParserIdle
    /\ RouteIdle
    /\ FnIdle
    /\ HostIdle

\* mutant: the ceiling branch does not return
AgentMaxTurnsNoReturn ==
    /\ a_pc = "loop"
    /\ AtMaxTurns(turn_count, max_turns)
    /\ last_action' = Some([kind |-> "max_turns"])
    /\ UNCHANGED <<a_pc, a_result, query, system_prompt, messages, response_id,
                   turn_count, max_turns, requests, tool_calls>>
    /\ UNCHANGED pvars
    /\ UNCHANGED rvars
    /\ UNCHANGED fvars
    /\ UNCHANGED hvars

\* lines 471-477
AgentMaxTurns ==
    /\ a_pc = "loop"
    /\ AtMaxTurns(turn_count, max_turns)
    /\ a_result' = [ok |-> TRUE,
                    value |-> "Max turns (" \o ToString(max_turns)
                              \o ") reached. Last context: "
                              \o (IF messages = <<>> THEN ""
                                  ELSE messages[Len(messages)].content)]
    /\ a_pc' = "done"
    /\ last_action' = Some([kind |-> "max_turns"])
    /\ UNCHANGED <<query, system_prompt, messages, response_id, turn_count,
                   max_turns, requests, tool_calls>>
    /\ UNCHANGED pvars
    /\ UNCHANGED rvars
    /\ UNCHANGED fvars
    /\ UNCHANGED hvars

\* line 479 with call_llm failing at line 346
AgentLlmError ==
    /\ a_pc = "loop"
    /\ ~AtMaxTurns(turn_count, max_turns)
    /\ requests' = Append(requests, LlmRequestOf(messages, system_prompt))
    /\ a_result' = [ok |-> FALSE, error |-> "llm: " \o ErrText]
    /\ a_pc' = "done"
    /\ last_action' = Some([kind |-> "llm_error"])
    /\ UNCHANGED <<query, system_prompt, messages, response_id, turn_count,
                   max_turns, tool_calls>>
    /\ UNCHANGED pvars
    /\ UNCHANGED rvars
    /\ UNCHANGED fvars
    /\ UNCHANGED hvars

\* line 479 with parse_agent_action failing at line 352
AgentParseError ==
    /\ a_pc = "loop"
    /\ ~AtMaxTurns(turn_count, max_turns)
    /\ \E text \in Responses :
         /\ ~ParsedResponse[text].some
         /\ last_action' = Some([kind |-> "response", text |-> text])
    /\ requests' = Append(requests, LlmRequestOf(messages, system_prompt))
    /\ a_result' = [ok |-> FALSE,
                    error |-> "No valid agent action JSON found in LLM output"]
    /\ a_pc' = "done"
    /\ UNCHANGED <<query, system_prompt, messages, response_id, turn_count,
                   max_turns, tool_calls>>
    /\ UNCHANGED pvars
    /\ UNCHANGED rvars
    /\ UNCHANGED fvars
    /\ UNCHANGED hvars

\* mutant: the answer is recorded in the transcript and decorated
AgentFinalAnswerDecorated ==
    /\ a_pc = "loop"
    /\ ~AtMaxTurns(turn_count, max_turns)
    /\ \E text \in Responses :
         LET action == ParsedResponse[text] IN
         /\ action.some
         /\ action.val.action = "final_answer"
         /\ a_result' = [ok |-> TRUE, value |-> "Answer: " \o action.val.answer]
         /\ messages' = Append(messages, MessageAssistant(action.val.answer))
         /\ last_action' = Some([kind |-> "response", text |-> text])
    /\ requests' = Append(requests, LlmRequestOf(messages, system_prompt))
    /\ turn_count' = turn_count + 1
    /\ a_pc' = "done"
    /\ UNCHANGED <<query, system_prompt, response_id, max_turns, tool_calls>>
    /\ UNCHANGED pvars
    /\ UNCHANGED rvars
    /\ UNCHANGED fvars
    /\ UNCHANGED hvars

\* lines 479-489
AgentFinalAnswer ==
    /\ a_pc = "loop"
    /\ ~AtMaxTurns(turn_count, max_turns)
    /\ \E text \in Responses :
         LET action == ParsedResponse[text] IN
         /\ action.some
         /\ action.val.action = "final_answer"
         /\ a_result' = [ok |-> TRUE, value |-> action.val.answer]
         /\ last_action' = Some([kind |-> "response", text |-> text])
    /\ requests' = Append(requests, LlmRequestOf(messages, system_prompt))
    /\ turn_count' = turn_count + 1
    /\ a_pc' = "done"
    /\ UNCHANGED <<query, system_prompt, messages, response_id, max_turns,
                   tool_calls>>
    /\ UNCHANGED pvars
    /\ UNCHANGED rvars
    /\ UNCHANGED fvars
    /\ UNCHANGED hvars

\* mutant: AskUser records the question and the loop goes on
AgentAskUserResumes ==
    /\ a_pc = "loop"
    /\ ~AtMaxTurns(turn_count, max_turns)
    /\ \E text \in Responses :
         LET action == ParsedResponse[text] IN
         /\ action.some
         /\ action.val.action = "ask_user"
         /\ messages' = Append(messages, MessageAssistant(action.val.question))
         /\ last_action' = Some([kind |-> "response", text |-> text])
    /\ requests' = Append(requests, LlmRequestOf(messages, system_prompt))
    /\ turn_count' = turn_count + 1
    /\ UNCHANGED <<a_pc, a_result, query, system_prompt, response_id, max_turns,
                   tool_calls>>
    /\ UNCHANGED pvars
    /\ UNCHANGED rvars
    /\ UNCHANGED fvars
    /\ UNCHANGED hvars

\* lines 479-484, 491-493
AgentAskUser ==
    /\ a_pc = "loop"
    /\ ~AtMaxTurns(turn_count, max_turns)
    /\ \E text \in Responses :
         LET action == ParsedResponse[text] IN
         /\ action.some
         /\ action.val.action = "ask_user"
         /\ a_result' = [ok |-> TRUE,
                         value |-> "Need more information: "
                                   \o action.val.question]
         /\ last_action' = Some([kind |-> "response", text |-> text])
    /\ requests' = Append(requests, LlmRequestOf(messages, system_prompt))
    /\ turn_count' = turn_count + 1
    /\ a_pc' = "done"
    /\ UNCHANGED <<query, system_prompt, messages, response_id, max_turns,
                   tool_calls>>
    /\ UNCHANGED pvars
    /\ UNCHANGED rvars
    /\ UNCHANGED fvars
    /\ UNCHANGED hvars

\* mutant: the call is recorded before its result
AgentCallToolRecordsCallFirst ==
    /\ a_pc = "loop"
    /\ ~AtMaxTurns(turn_count, max_turns)
    /\ \E text \in Responses :
         LET action == ParsedResponse[text] IN
         /\ action.some
         /\ action.val.action = "call_tool"
         /\ \E env \in ToolEnvs :
            LET tool == action.val.tool
                args == action.val.args
                r    == execute_tool(tool, args, env)
            IN  /\ tool_calls' = Append(tool_calls,
                       [tool |-> tool, args |-> args, success |-> r.success,
                        output |-> r.output, turn |-> turn_count + 1])
                /\ messages' = messages \o
                       << MessageAssistant("Called tool " \o tool
                                           \o " with args: " \o args),
                          MessageTool(tool, r.success, r.output) >>
         /\ last_action' = Some([kind |-> "response", text |-> text])
    /\ requests' = Append(requests, LlmRequestOf(messages, system_prompt))
    /\ turn_count' = turn_count + 1
    /\ UNCHANGED <<a_pc, query, system_prompt, response_id, max_turns, a_result>>
    /\ UNCHANGED pvars
    /\ UNCHANGED rvars
    /\ UNCHANGED fvars
    /\ UNCHANGED hvars

\* lines 479-484, 495-522
AgentCallTool ==
    /\ a_pc = "loop"
    /\ ~AtMaxTurns(turn_count, max_turns)
    /\ \E text \in Responses :
         LET action == ParsedResponse[text] IN
         /\ action.some
         /\ action.val.action = "call_tool"
         /\ \E env \in ToolEnvs :
            LET tool == action.val.tool
                args == action.val.args
                r    == execute_tool(tool, args, env)
            IN  /\ tool_calls' = Append(tool_calls,
                       [tool |-> tool, args |-> args, success |-> r.success,
                        output |-> r.output, turn |-> turn_count + 1])
                /\ messages' = messages \o
                       << MessageTool(tool, r.success, r.output),
                          MessageAssistant("Called tool " \o tool
                                           \o " with args: " \o args) >>
         /\ last_action' = Some([kind |-> "response", text |-> text])
    /\ requests' = Append(requests, LlmRequestOf(messages, system_prompt))
    /\ turn_count' = turn_count + 1
    /\ UNCHANGED <<a_pc, query, system_prompt, response_id, max_turns, a_result>>
    /\ UNCHANGED pvars
    /\ UNCHANGED rvars
    /\ UNCHANGED fvars
    /\ UNCHANGED hvars

\* lines 495-511 with config.verbose set: the debug print slices the output
\* at byte 200 (&output[..200]); when the output is longer than 200 bytes and
\* byte 200 is not a char boundary the slice panics, after execute_tool and
\* before add_tool_result
AgentCallToolPanic ==
    /\ a_pc = "loop"
    /\ ~AtMaxTurns(turn_count, max_turns)
    /\ \E text \in Responses :
         LET action == ParsedResponse[text] IN
         /\ action.some
         /\ action.val.action = "call_tool"
         /\ \E env \in ToolEnvs :
            LET tool == action.val.tool
                args == action.val.args
                r    == execute_tool(tool, args, env)
            IN  tool_calls' = Append(tool_calls,
                       [tool |-> tool, args |-> args, success |-> r.success,
                        output |-> r.output, turn |-> turn_count + 1])
         /\ last_action' = Some([kind |-> "response", text |-> text])
    /\ requests' = Append(requests, LlmRequestOf(messages, system_prompt))
    /\ turn_count' = turn_count + 1
    /\ a_pc' = "panic"
    /\ UNCHANGED <<query, system_prompt, messages, response_id, max_turns,
                   a_result>>
    /\ UNCHANGED pvars
    /\ UNCHANGED rvars
    /\ UNCHANGED fvars
    /\ UNCHANGED hvars

\* the loop with config.verbose = false (AgentConfig::default, line 30)
AgentNext ==
    \/ AgentMaxTurns
    \/ AgentLlmError
    \/ AgentParseError
    \/ AgentFinalAnswer
    \/ AgentAskUser
    \/ AgentCallTool

----------------------------------------------------------------------------
(* Intent model, types.rs 16-140 *)

IntentTypes == {"summarize", "find", "draft", "remind", "weather", "unknown"}
SourcePreferences == {"notes", "files", "either"}

OptOf(S) == {None} \cup {Some(v) : v \in S}

\* the values an extractor or a CLI flag may put in each slot
Entities ==
    [topic : OptOf({"", "AI notes"}),
     query : OptOf({"ml"}),
     location : OptOf({"", "Seattle"}),
     date : OptOf({"2026-02-01", "tomorrow"}),
     date_end : OptOf({"2026-02-03"}),
     recipient : OptOf({"bob"}),
     priority : OptOf({"high"}),
     weather_query : OptOf({"forecast"})]

Constraints == [source_preference : SourcePreferences, safety : {"normal"}]

Slots == {"topic", "query", "location", "date", "date_end", "recipient",
          "priority", "weather_query"}

Filled(e) == Cardinality({k \in Slots : e[k].some})

Payloads ==
    [intent : IntentTypes,
     entities : {e \in Entities : Filled(e) <= MaxEntities},
     constraints : Constraints]

\* Decision, types.rs 126-140
Route(tool, args) == [type |-> "route", tool |-> tool, args |-> args]
NeedInfo(question) == [type |-> "need_info", question |-> question]
Reject(reason) == [type |-> "reject", reason |-> reason]

NoArgs == [k \in {} |-> ""]
OptArg(key, v) == IF v.some THEN key :> v.val ELSE NoArgs

\* serde_json's Display of an args object: sorted keys, compact
KeyOrder == <<"body", "date", "date_end", "due", "location", "priority",
              "query", "scope", "subject", "title", "to", "weather_query">>

RECURSIVE MembersJson(_, _)
MembersJson(args, i) ==
    IF i > Len(KeyOrder) THEN <<>>
    ELSE (IF KeyOrder[i] \in DOMAIN args
          THEN <<QT \o KeyOrder[i] \o "\":\"" \o args[KeyOrder[i]] \o QT>>
          ELSE <<>>) \o MembersJson(args, i + 1)

ArgsJson(args) == "{" \o Join(MembersJson(args, 1), ",") \o "}"

----------------------------------------------------------------------------
(* Date resolution, types.rs 282-338.  A date is a day of January 2026;   *)
(* 2026-01-05 is a Monday.                                                 *)

TodayDays == {5, 10}

\* NaiveDate::weekday().num_days_from_monday()
DaysFromMonday(day) == (day - 5) % 7

\* format_date, lines 311-313
format_date(day) ==
    "2026-01-" \o (IF day < 10 THEN "0" ELSE "") \o ToString(day)

\* parse_weekday, lines 316-327: num_days_from_monday of the weekday
parse_weekday(str) ==
    CASE str \in {"monday", "mon"} -> Some(0)
      [] str \in {"tuesday", "tue", "tues"} -> Some(1)
      [] str \in {"wednesday", "wed"} -> Some(2)
      [] str \in {"thursday", "thu", "thurs"} -> Some(3)
      [] str \in {"friday", "fri"} -> Some(4)
      [] str \in {"saturday", "sat"} -> Some(5)
      [] str \in {"sunday", "sun"} -> Some(6)
      [] OTHER -> None

\* mutant: the same weekday is today
next_weekday_same_day(from, target) ==
    from + ((target - DaysFromMonday(from) + 7) % 7)

\* next_weekday, lines 330-338
next_weekday(from, target) ==
    LET days_ahead == (target - DaysFromMonday(from) + 7) % 7 IN
    from + (IF days_ahead = 0 THEN 7 ELSE days_ahead)

\* A date text is a string; Tokens splits the texts of the model into words,
\* single blanks and numbers, on which the str methods are computed.
WeekdayNames == {"monday", "tuesday", "wednesday", "thursday", "friday",
                 "saturday", "sunday", "mon", "tues", "thurs", "sat"}

DateTokenSeqs ==
    {<<w>> : w \in WeekdayNames \cup {"today", "TODAY", "tomorrow", "Tomorrow",
                                      "yesterday", "forecast", "Forecast",
                                      "2026-02-01", "week"}}
    \cup {<<"next", " ", w>> : w \in WeekdayNames \cup {"week", "Week", "year"}}
    \cup {<<"next", " ", ToString(n), " ", "days">> : n \in 0..MaxRangeDays}
    \cup {<<"next", " ", n, " ", "days">> : n \in {"2000000000", "few", "-1"}}
    \cup {<<>>, <<" ", "Next", " ", "Friday", " ">>, <<"NEXT", " ", "WEEK">>,
          <<"next", " ", " ", "week">>, <<"next", " ", " ", "sunday">>,
          <<"next", " ", " ", "1", " ", "days">>, <<"next", " ", "1", "days">>,
          <<"this", " ", "weekend">>, <<"This", " ", "Weekend", " ">>,
          <<"this", " ", "week">>, <<"tomorrow", " ", "forecast">>,
          <<"weekend", " ", "Forecast">>, <<"January", " ", "15">>}

RECURSIVE StrOf(_)
StrOf(seq) == IF seq = <<>> THEN "" ELSE Head(seq) \o StrOf(Tail(seq))

Tokens(str) ==
    IF \E seq \in DateTokenSeqs : StrOf(seq) = str
    THEN CHOOSE seq \in DateTokenSeqs : StrOf(seq) = str
    ELSE <<str>>

\* str::to_lowercase, word by word
LowerToken(w) ==
    CASE w = "TODAY" -> "today"
      [] w = "Tomorrow" -> "tomorrow"
      [] w = "Forecast" -> "forecast"
      [] w = "Next" -> "next"
      [] w = "NEXT" -> "next"
      [] w = "Week" -> "week"
      [] w = "WEEK" -> "week"
      [] w = "Friday" -> "friday"
      [] w = "This" -> "this"
      [] w = "Weekend" -> "weekend"
      [] w = "January" -> "january"
      [] OTHER -> w

\* date_str.to_lowercase().trim(), lines 284-285 and 349-350
LowerTrim(str) ==
    LET seq == Tokens(str) IN Trim([i \in DOMAIN seq |-> LowerToken(seq[i])])

\* strip_prefix("next ")
StripNext(seq) ==
    IF Len(seq) >= 2 /\ seq[1] = "next" /\ seq[2] = " "
    THEN Some(SubSeq(seq, 3, Len(seq))) ELSE None

\* strip_suffix(" days")
StripDays(seq) ==
    IF Len(seq) >= 2 /\ seq[Len(seq) - 1] = " " /\ seq[Len(seq)] = "days"
    THEN Some(SubSeq(seq, 1, Len(seq) - 2)) ELSE None

\* str::parse::<u64>
ParseU64(seq) ==
    IF Len(seq) = 1
       /\ \E n \in 0..MaxRangeDays \cup {2000000000} : ToString(n) = seq[1]
    THEN Some(CHOOSE n \in 0..MaxRangeDays \cup {2000000000} : ToString(n) = seq[1])
    ELSE None

\* resolve_relative_date, lines 282-308, with Local::now() = today
resolve_relative_date(date_str, today) ==
    LET trimmed == LowerTrim(date_str) IN
    CASE trimmed = <<"today">> -> format_date(today)
      [] trimmed = <<"tomorrow">> -> format_date(today + 1)
      [] trimmed = <<"yesterday">> -> format_date(today - 1)
      [] OTHER ->
           IF StripNext(trimmed).some
              /\ parse_weekday(StrOf(Trim(StripNext(trimmed).val))).some
           THEN format_date(next_weekday(today,
                      parse_weekday(StrOf(Trim(StripNext(trimmed).val))).val))
           ELSE IF parse_weekday(StrOf(trimmed)).some
           THEN format_date(next_weekday(today, parse_weekday(StrOf(trimmed)).val))
           ELSE date_str

\* (String, Option<String>), or the panic of NaiveDate + Days out of range
DateRange(start, end) == [panic |-> FALSE, start |-> start, end |-> end]
Panic == [panic |-> TRUE]

\* mutant: N days end N days after today
NextNDaysOffByOne(n, today) ==
    IF n > 95000000 THEN Panic
    ELSE DateRange(format_date(today), Some(format_date(today + n)))

\* lines 360-364; NaiveDate::MAX is less than 95000000 days after today
NextNDays(n, today) ==
    LET days == IF n = 0 THEN 0 ELSE n - 1 IN
    IF days > 95000000 THEN Panic
    ELSE DateRange(format_date(today), Some(format_date(today + days)))

\* mutant: the Saturday of the current week, also on a Sunday
ThisWeekendOfThisWeek(today) ==
    LET saturday == today + (5 - DaysFromMonday(today))
    IN  DateRange(format_date(saturday), Some(format_date(saturday + 1)))

\* lines 370-387
ThisWeekend(today) ==
    LET current_weekday == DaysFromMonday(today)
        d == (5 - current_weekday + 7) % 7
        days_until_saturday == IF d = 0 /\ current_weekday = 5 THEN 0
                               ELSE IF d = 0 THEN 7 ELSE d
        saturday == today + days_until_saturday
    IN  DateRange(format_date(saturday), Some(format_date(saturday + 1)))

\* mutant: a single date is returned as a one-day range
SingleDateAsRange(date_str, today) ==
    DateRange(resolve_relative_date(date_str, today),
              Some(resolve_relative_date(date_str, today)))

\* lines 398-399
SingleDate(date_str, today) ==
    DateRange(resolve_relative_date(date_str, today), None)

\* trimmed.contains("forecast")
ContainsForecast(seq) == \E i \in DOMAIN seq : seq[i] = "forecast"

\* resolve_date_range, lines 347-400, with Local::now() = today
resolve_date_range(date_str, today) ==
    LET trimmed == LowerTrim(date_str)
        rest == StripNext(trimmed)
        days_str == IF rest.some THEN StripDays(rest.val) ELSE None
        n == IF days_str.some THEN ParseU64(Trim(days_str.val)) ELSE None
    IN  IF trimmed = <<"next", " ", "week">>
        THEN DateRange(format_date(today), Some(format_date(today + 6)))
        ELSE IF n.some
        THEN NextNDays(n.val, today)
        ELSE IF trimmed = <<"this", " ", "weekend">>
        THEN ThisWeekend(today)
        ELSE IF ContainsForecast(trimmed)
        THEN DateRange(format_date(today), Some(format_date(today + 6)))
        ELSE SingleDate(date_str, today)

----------------------------------------------------------------------------
(* One call of a date resolver, types.rs 282-400 *)

FromDays == 5..(4 + MaxFromDays)
Weekdays == 0..6
DateTexts == {StrOf(seq) : seq \in DateTokenSeqs}

DateInit ==
    /\ f_pc = "call"
    /\ f_input \in
          [fn : {"resolve_relative_date", "resolve_date_range"},
           date_str : DateTexts, today : FromDays]
          \cup [fn : {"next_weekday"}, from : FromDays, target : Weekdays]
    /\ f_output = None
    /\ ParserIdle
    /\ AgentIdle
    /\ RouteIdle
    /\ HostIdle

CallResolveRelativeDate ==
    /\ f_pc = "call"
    /\ f_input.fn = "resolve_relative_date"
    /\ f_output' = Some(resolve_relative_date(f_input.date_str, f_input.today))
    /\ f_pc' = "done"
    /\ UNCHANGED <<f_input, pvars, avars, rvars, hvars>>

CallResolveDateRange ==
    /\ f_pc = "call"
    /\ f_input.fn = "resolve_date_range"
    /\ f_output' = Some(resolve_date_range(f_input.date_str, f_input.today))
    /\ f_pc' = "done"
    /\ UNCHANGED <<f_input, pvars, avars, rvars, hvars>>

CallNextWeekday ==
    /\ f_pc = "call"
    /\ f_input.fn = "next_weekday"
    /\ f_output' = Some(next_weekday(f_input.from, f_input.target))
    /\ f_pc' = "done"
    /\ UNCHANGED <<f_input, pvars, avars, rvars, hvars>>

DateNext == CallResolveRelativeDate \/ CallResolveDateRange \/ CallNextWeekday

----------------------------------------------------------------------------
(* Term encoders of Entities, types.rs 151-275.  A value is a sequence of  *)
(* characters; an encoded text is a sequence of characters and of the      *)
(* words (keys, weather_query names) the encoders write.                   *)

SQ == "'"

RECURSIVE Replace(_, _, _)
\* str::replace(ch, rep)
Replace(v, ch, rep) ==
    IF v = <<>> THEN <<>>
    ELSE (IF Head(v) = ch THEN rep ELSE <<Head(v)>>) \o Replace(Tail(v), ch, rep)

\* escape_prolog_string, lines 205-207
escape_prolog_string(v) == Replace(Replace(v, BS, <<BS, BS>>), QT, <<BS, QT>>)

\* mutant: the quote is escaped before the backslash
escape_prolog_atom_swapped(v) == Replace(Replace(v, SQ, <<BS, SQ>>), BS, <<BS, BS>>)

\* escape_prolog_atom, lines 273-275
escape_prolog_atom(v) == Replace(Replace(v, BS, <<BS, BS>>), SQ, <<BS, SQ>>)

\* the order in which both encoders visit the fields
SlotOrder == <<"topic", "query", "location", "date", "date_end", "recipient",
               "priority", "weather_query">>

RECURSIVE JoinSeq(_, _)
\* Vec<String>::join
JoinSeq(parts, sep) ==
    IF parts = <<>> THEN <<>>
    ELSE IF Len(parts) = 1 THEN parts[1]
    ELSE parts[1] \o sep \o JoinSeq(Tail(parts), sep)

RECURSIVE DictParts(_, _)
DictParts(e, i) ==
    IF i > Len(SlotOrder) THEN <<>>
    ELSE LET k == SlotOrder[i] IN
         (IF ~e[k].some THEN <<>>
          ELSE IF k = "weather_query"
          THEN << <<k, ":", QT, e[k].val, QT>> >>
          ELSE << <<k, ":", QT>> \o escape_prolog_string(e[k].val) \o <<QT>> >>)
         \o DictParts(e, i + 1)

\* ToPrologDict for Entities, lines 151-187
to_prolog_dict(e) == <<"_", "{">> \o JoinSeq(DictParts(e, 1), <<",", " ">>) \o <<"}">>

RECURSIVE ListParts(_, _)
ListParts(e, i) ==
    IF i > Len(SlotOrder) THEN <<>>
    ELSE LET k == SlotOrder[i] IN
         (IF ~e[k].some THEN <<>>
          ELSE IF k = "weather_query"
          THEN << <<k, "-", e[k].val>> >>
          ELSE << <<k, "-", SQ>> \o escape_prolog_atom(e[k].val) \o <<SQ>> >>)
         \o ListParts(e, i + 1)

\* ToPrologList for Entities, lines 218-255
to_prolog_list(e) == <<"[">> \o JoinSeq(ListParts(e, 1), <<",", " ">>) \o <<"]">>

\* the strings and WeatherQueryType values of the encoded Entities
EncValues ==
    {<<>>, <<"a">>, <<QT>>, <<SQ>>, <<BS>>, <<BS, QT>>, <<"a", BS, SQ>>,
     <<SQ, ",", " ", "}", QT>>}
WeatherQueryTypes == {"current", "forecast", "assessment"}

EncEntities(max) ==
    UNION {{[k \in Slots |-> IF k \notin S THEN None
                             ELSE IF k = "weather_query" THEN Some(wq)
                             ELSE Some(f[k])] :
              f \in [S \ {"weather_query"} -> EncValues],
              wq \in IF "weather_query" \in S THEN WeatherQueryTypes ELSE {"current"}} :
           S \in {T \in SUBSET Slots : Cardinality(T) <= max}}

EncodeInit ==
    /\ f_pc = "call"
    /\ f_input \in EncEntities(MaxEncoded)
    /\ f_output = [dict |-> None, list |-> None]
    /\ ParserIdle
    /\ AgentIdle
    /\ RouteIdle
    /\ HostIdle

CallToPrologDict ==
    /\ f_pc = "call"
    /\ ~f_output.dict.some
    /\ f_output' = [f_output EXCEPT !.dict = Some(to_prolog_dict(f_input))]
    /\ f_pc' = IF f_output.list.some THEN "done" ELSE "call"
    /\ UNCHANGED <<f_input, pvars, avars, rvars, hvars>>

CallToPrologList ==
    /\ f_pc = "call"
    /\ ~f_output.list.some
    /\ f_output' = [f_output EXCEPT !.list = Some(to_prolog_list(f_input))]
    /\ f_pc' = IF f_output.dict.some THEN "done" ELSE "call"
    /\ UNCHANGED <<f_input, pvars, avars, rvars, hvars>>

EncodeNext == CallToPrologDict \/ CallToPrologList

----------------------------------------------------------------------------
(* Native strategy: prolog_decide_stub, router.rs 12-170 *)

\* mutant: Either is routed to the notes search as well
StubSummarizeFindEitherNotes(p) ==
    LET e == p.entities
        query_text == IF e.topic.some THEN e.topic.val
                      ELSE IF e.query.some THEN e.query.val
                      ELSE ""
    IN  IF query_text = ""
        THEN NeedInfo("What should I " \o p.intent \o "?")
        ELSE Route(IF p.constraints.source_preference \in {"notes", "either"}
                   THEN "search_notes" ELSE "search_files",
                   [query |-> query_text, scope |-> "user"])

\* the Summarize | Find arm, lines 30-55
StubSummarizeFind(p) ==
    LET e == p.entities
        query_text == IF e.topic.some THEN e.topic.val
                      ELSE IF e.query.some THEN e.query.val
                      ELSE ""
    IN  IF query_text = ""
        THEN NeedInfo("What should I " \o p.intent \o "?")
        ELSE Route(IF p.constraints.source_preference = "notes"
                   THEN "search_notes" ELSE "search_files",
                   [query |-> query_text, scope |-> "user"])

\* mutant: date_end is not copied into the args
StubWeatherNoDateEnd(p, configured) ==
    LET e == p.entities IN
    IF ~e.location.some
    THEN NeedInfo("What location should I use?")
    ELSE Route(IF configured THEN "get_apple_weather" ELSE "get_weather",
               [location |-> e.location.val]
               @@ OptArg("date", e.date)
               @@ OptArg("weather_query", e.weather_query))

\* the Weather arm, lines 57-104
StubWeather(p, configured) ==
    LET e == p.entities IN
    IF ~e.location.some
    THEN NeedInfo("What location should I use?")
    ELSE Route(IF configured THEN "get_apple_weather" ELSE "get_weather",
               [location |-> e.location.val]
               @@ OptArg("date", e.date)
               @@ OptArg("date_end", e.date_end)
               @@ OptArg("weather_query", e.weather_query))

\* the Draft arm, lines 106-129
StubDraft(p) ==
    LET e == p.entities IN
    IF ~e.recipient.some
    THEN NeedInfo("Who should I email?")
    ELSE Route("draft_email",
               [to |-> e.recipient.val,
                subject |-> IF e.topic.some THEN e.topic.val ELSE "(no subject)",
                body |-> ""])

\* mutant: the date is checked before the topic
StubRemindDateFirst(p) ==
    LET e == p.entities IN
    IF ~e.date.some
    THEN NeedInfo("When is this due? (e.g., tomorrow, next Friday, 2026-02-01)")
    ELSE IF ~e.topic.some
    THEN NeedInfo("What should I remind you about?")
    ELSE Route("create_todo",
               [title |-> e.topic.val,
                due |-> e.date.val,
                priority |-> IF e.priority.some THEN e.priority.val ELSE "normal"])

\* the Remind arm, lines 131-164
StubRemind(p) ==
    LET e == p.entities IN
    IF ~e.topic.some
    THEN NeedInfo("What should I remind you about?")
    ELSE IF ~e.date.some
    THEN NeedInfo("When is this due? (e.g., tomorrow, next Friday, 2026-02-01)")
    ELSE Route("create_todo",
               [title |-> e.topic.val,
                due |-> e.date.val,
                priority |-> IF e.priority.some THEN e.priority.val ELSE "normal"])

prolog_decide_stub(p, configured) ==
    CASE p.intent \in {"summarize", "find"} -> StubSummarizeFind(p)
      [] p.intent = "weather" -> StubWeather(p, configured)
      [] p.intent = "draft" -> StubDraft(p)
      [] p.intent = "remind" -> StubRemind(p)
      [] OTHER -> Reject("No matching route or follow-up found.")

----------------------------------------------------------------------------
(* The rule files router.pl / router_standard.pl are not part of the       *)
(* sources; router_rules is what a rule file that states the routing rules *)
(* of the specification answers to route(Intent, Entities, Constraints,    *)
(* Tool, Args).                                                            *)

router_rules(p, configured) ==
    LET e == p.entities IN
    CASE p.intent \in {"summarize", "find"} ->
           IF (e.topic.some /\ e.topic.val # "")
           THEN [kind |-> "success",
                 tool |-> IF p.constraints.source_preference = "notes"
                          THEN "search_notes" ELSE "search_files",
                 args |-> [query |-> e.topic.val, scope |-> "user"]]
           ELSE IF ~e.topic.some /\ e.query.some /\ e.query.val # ""
           THEN [kind |-> "success",
                 tool |-> IF p.constraints.source_preference = "notes"
                          THEN "search_notes" ELSE "search_files",
                 args |-> [query |-> e.query.val, scope |-> "user"]]
           ELSE [kind |-> "missing_required", field |-> "topic"]
      [] p.intent = "weather" ->
           IF e.location.some
           THEN [kind |-> "success",
                 tool |-> IF configured THEN "get_apple_weather" ELSE "get_weather",
                 args |-> [location |-> e.location.val]
                          @@ OptArg("date", e.date)
                          @@ OptArg("date_end", e.date_end)
                          @@ OptArg("weather_query", e.weather_query)]
           ELSE [kind |-> "missing_required", field |-> "location"]
      [] p.intent = "draft" ->
           IF e.recipient.some
           THEN [kind |-> "success", tool |-> "draft_email",
                 args |-> [to |-> e.recipient.val,
                           subject |-> IF e.topic.some THEN e.topic.val
                                       ELSE "(no subject)",
                           body |-> ""]]
           ELSE [kind |-> "missing_required", field |-> "recipient"]
      [] p.intent = "remind" ->
           IF ~e.topic.some
           THEN [kind |-> "missing_required", field |-> "topic"]
           ELSE IF ~e.date.some
           THEN [kind |-> "missing_required", field |-> "date"]
           ELSE [kind |-> "success", tool |-> "create_todo",
                 args |-> [title |-> e.topic.val, due |-> e.date.val,
                           priority |-> IF e.priority.some THEN e.priority.val
                                        ELSE "normal"]]
      [] OTHER -> [kind |-> "failure"]

----------------------------------------------------------------------------
(* Engine-A: prolog_decide_via_json, prolog.rs 18-86 *)

Ok(v) == [ok |-> TRUE, val |-> v]
Err(e) == [ok |-> FALSE, error |-> e]

RequiredFields == {"date", "location", "recipient", "topic", "query"}

\* what the SWI engine does in one call
SwiplAnswers ==
    {[kind |-> k] : k \in {"consult_parse_error", "consult_failed",
                           "query_parse_error", "failure", "exception"}}
    \cup {[kind |-> "success"]}
    \cup {[kind |-> "missing_required", field |-> f] : f \in RequiredFields}

\* format!("{:?}", e), line 58
SwiplErrStr(ans) ==
    CASE ans.kind = "missing_required" ->
           "Exception(error(missing_required(" \o ans.field \o "),_))"
      [] ans.kind = "exception" ->
           "Exception(error(existence_error(procedure,route/5),_))"
      [] OTHER -> "Failure"

\* err_str.contains("missing_required(<field>)")
ContainsMissing(ans, field) == ans.kind = "missing_required" /\ ans.field = field

\* mutant: the missing_required(topic) branch is absent
prolog_decide_via_json_no_topic(p, ans, configured) ==
    CASE ans.kind = "consult_parse_error" -> Err("Failed to parse consult goal")
      [] ans.kind = "consult_failed" -> Err("Failed to load router.pl")
      [] ans.kind = "query_parse_error" -> Err("Failed to parse query")
      [] ans.kind = "success" -> Ok(prolog_decide_stub(p, configured))
      [] OTHER ->
           IF ContainsMissing(ans, "date")
           THEN Ok(NeedInfo("When is this due? (e.g., tomorrow, next Friday)"))
           ELSE IF ContainsMissing(ans, "location")
           THEN Ok(NeedInfo("What location should I use?"))
           ELSE IF ContainsMissing(ans, "recipient")
           THEN Ok(NeedInfo("Who should I email?"))
           ELSE Ok(Reject("No matching route found: " \o SwiplErrStr(ans)))

prolog_decide_via_json(p, ans, configured) ==
    CASE ans.kind = "consult_parse_error" -> Err("Failed to parse consult goal")
      [] ans.kind = "consult_failed" -> Err("Failed to load router.pl")
      [] ans.kind = "query_parse_error" -> Err("Failed to parse query")
      [] ans.kind = "success" -> Ok(prolog_decide_stub(p, configured))
      [] OTHER ->
           IF ContainsMissing(ans, "date")
           THEN Ok(NeedInfo("When is this due? (e.g., tomorrow, next Friday)"))
           ELSE IF ContainsMissing(ans, "location")
           THEN Ok(NeedInfo("What location should I use?"))
           ELSE IF ContainsMissing(ans, "recipient")
           THEN Ok(NeedInfo("Who should I email?"))
           ELSE IF ContainsMissing(ans, "topic")
           THEN Ok(NeedInfo("What topic should I use?"))
           ELSE Ok(Reject("No matching route found: " \o SwiplErrStr(ans)))

----------------------------------------------------------------------------
(* Engine-B: scryer_decide, scryer.rs 13-192 *)

\* Tool and Args bindings an arbitrary rule file may produce
EngineBindings ==
    {[tool |-> "search_files", args |-> [query |-> "ml", scope |-> "user"]],
     [tool |-> "get_weather", args |-> [location |-> "Seattle"]]}

\* what the file system and the Scryer machine do in one call, for payload p
ScryerAnswers(p, configured) ==
    {[kind |-> k] : k \in {"read_error", "tool_unbound", "tool_not_atom",
                           "true", "false", "none", "exception",
                           "missing_required_bad_field"}}
    \cup {[kind |-> "bindings", tool |-> b.tool, args |-> b.args] :
            b \in EngineBindings
                  \cup (IF router_rules(p, configured).kind = "success"
                        THEN {[tool |-> router_rules(p, configured).tool,
                               args |-> router_rules(p, configured).args]}
                        ELSE {})}
    \cup {[kind |-> "missing_required", field |-> f, leaf |-> FALSE] :
            f \in RequiredFields}
    \cup {[kind |-> "missing_required", field |-> "topic", leaf |-> TRUE]}

\* handle_exception, lines 164-192
handle_exception(ans) ==
    IF ans.kind = "missing_required_bad_field"
    THEN Err("Expected atom or string")
    ELSE IF ans.kind = "missing_required"
    THEN CASE ans.field = "recipient" -> Ok(NeedInfo("Who should I email?"))
           [] ans.field = "date" ->
                Ok(NeedInfo("When is this due? (e.g., tomorrow, next Friday)"))
           [] ans.field = "location" -> Ok(NeedInfo("What location should I use?"))
           [] ans.field = "topic" -> Ok(NeedInfo("What topic should I use?"))
           [] OTHER -> Ok(NeedInfo("What " \o ans.field \o " should I use?"))
    ELSE Ok(Reject("Prolog exception: error(existence_error(procedure,route/5),_)"))

\* extract_decision_from_answer, lines 60-98
extract_decision_from_answer(ans) ==
    CASE ans.kind = "tool_unbound" -> Err("Tool not bound in answer")
      [] ans.kind = "tool_not_atom" -> Err("Expected atom")
      [] ans.kind = "bindings" -> Ok(Route(ans.tool, ans.args))
      [] ans.kind = "true" -> Ok(Reject("Query succeeded but no variable bindings"))
      [] ans.kind = "false" -> Ok(Reject("No matching route found"))
      [] OTHER -> handle_exception(ans)

\* mutant: an unreadable rule file is answered with a Reject
scryer_decide_no_read_error(ans) ==
    CASE ans.kind = "read_error" -> Ok(Reject("No matching route found"))
      [] ans.kind = "none" -> Ok(Reject("No matching route found"))
      [] ans.kind \in {"exception", "missing_required_bad_field"} ->
           handle_exception(ans)
      [] ans.kind = "missing_required" /\ ~ans.leaf -> handle_exception(ans)
      [] OTHER -> extract_decision_from_answer(ans)

\* scryer_decide, lines 13-57
scryer_decide(ans) ==
    CASE ans.kind = "read_error" -> Err("Failed to read router file")
      [] ans.kind = "none" -> Ok(Reject("No matching route found"))
      [] ans.kind \in {"exception", "missing_required_bad_field"} ->
           handle_exception(ans)
      [] ans.kind = "missing_required" /\ ~ans.leaf -> handle_exception(ans)
      [] OTHER -> extract_decision_from_answer(ans)

----------------------------------------------------------------------------
(* run_tool, main.rs 895-942 *)

RunEnvs == [native : {"ok", "err"}, executor : {"absent", "no_endpoint", "ok", "err"}]

\* mutant: a failing endpoint is reported like the agent's execute_tool does
run_tool_plain_error(tool, args, env, configured) ==
    IF tool = "get_apple_weather" /\ configured /\ env.native = "ok"
    THEN [output |-> "weather data", failed |-> {}]
    ELSE LET native == IF tool = "get_apple_weather" /\ configured
                       THEN {"apple_weather"} ELSE {}
         IN  IF env.executor = "ok"
             THEN [output |-> "endpoint data", failed |-> native]
             ELSE IF env.executor = "err"
             THEN [output |-> "Error: " \o ErrText,
                   failed |-> native \cup {"endpoint"}]
             ELSE [output |-> run_tool_stub(tool, ArgsJson(args)),
                   failed |-> native]

\* the String run_tool returns; failed names the executions that failed
run_tool(tool, args, env, configured) ==
    IF tool = "get_apple_weather" /\ configured /\ env.native = "ok"
    THEN [output |-> "weather data", failed |-> {}]
    ELSE LET native == IF tool = "get_apple_weather" /\ configured
                       THEN {"apple_weather"} ELSE {}
         IN  IF env.executor = "ok"
             THEN [output |-> "endpoint data", failed |-> native]
             ELSE IF env.executor = "err"
             THEN [output |-> "[error] " \o tool \o ": " \o ErrText,
                   failed |-> native \cup {"endpoint"}]
             ELSE [output |-> run_tool_stub(tool, ArgsJson(args)),
                   failed |-> native]

----------------------------------------------------------------------------
(* Single-shot mode of main, main.rs 1061-1168 *)

CliArgs ==
    [date : OptOf({"next week"}), location : OptOf({"Seattle"}),
     recipient : OptOf({"bob"}), source : OptOf({"notes"})]

\* lines 1077-1089
Overlay(p, cli) ==
    [p EXCEPT
       !.entities.date = IF cli.date.some THEN cli.date ELSE @,
       !.entities.location = IF cli.location.some THEN cli.location ELSE @,
       !.entities.recipient = IF cli.recipient.some THEN cli.recipient ELSE @,
       !.constraints.source_preference =
            IF cli.source.some THEN cli.source.val ELSE @]

\* lines 1091-1098
ResolveDate(p, today) ==
    IF p.entities.date.some
    THEN [p EXCEPT !.entities.date =
                      Some(resolve_relative_date(p.entities.date.val, today))]
    ELSE p

UnknownResponse ==
    [type |-> "need_info",
     question |-> "What are you trying to do (summarize, find, weather, draft, remind)?"]

RouteInit ==
    /\ r_pc = "start"
    /\ payload = None /\ raw_date = None /\ weather_configured \in BOOLEAN
    /\ probe = None /\ decision = None /\ tool_result = None /\ printed = None
    /\ ParserIdle
    /\ AgentIdle
    /\ FnIdle
    /\ HostIdle

\* lines 1061-1098: extraction, CLI overlays, date resolution
MainExtract ==
    /\ r_pc = "start"
    /\ \E p \in Payloads, cli \in CliArgs, today \in TodayDays :
         /\ Filled(Overlay(p, cli).entities) <= MaxEntities
         /\ raw_date' = Overlay(p, cli).entities.date
         /\ payload' = ResolveDate(Overlay(p, cli), today)
    /\ r_pc' = "route"
    /\ UNCHANGED <<weather_configured, probe, decision, tool_result, printed>>
    /\ UNCHANGED pvars
    /\ UNCHANGED avars
    /\ UNCHANGED fvars
    /\ UNCHANGED hvars

\* lines 1100-1108
MainUnknown ==
    /\ r_pc = "route"
    /\ payload.intent = "unknown"
    /\ printed' = Some(UnknownResponse)
    /\ r_pc' = "done"
    /\ UNCHANGED <<payload, raw_date, weather_configured, probe, decision,
                   tool_result>>
    /\ UNCHANGED pvars
    /\ UNCHANGED avars
    /\ UNCHANGED fvars
    /\ UNCHANGED hvars

\* after the decision: lines 1155-1162
AfterDecision(d) == IF d.type = "route" THEN "tool" ELSE "done"

\* mutant: the Unknown filter is missing
MainRouteStubUnfiltered ==
    /\ r_pc = "route"
    /\ LET d == prolog_decide_stub(payload, weather_configured) IN
         /\ decision' = Some(d)
         /\ r_pc' = AfterDecision(d)
    /\ probe' = Some([engine |-> "native"])
    /\ UNCHANGED <<payload, raw_date, weather_configured, tool_result, printed>>
    /\ UNCHANGED pvars
    /\ UNCHANGED avars
    /\ UNCHANGED fvars
    /\ UNCHANGED hvars

\* lines 1111-1115 (--stub) and 1146-1152 (no backend compiled)
MainRouteStub ==
    /\ r_pc = "route"
    /\ payload.intent # "unknown"
    /\ LET d == prolog_decide_stub(payload, weather_configured) IN
         /\ decision' = Some(d)
         /\ r_pc' = AfterDecision(d)
    /\ probe' = Some([engine |-> "native"])
    /\ UNCHANGED <<payload, raw_date, weather_configured, tool_result, printed>>
    /\ UNCHANGED pvars
    /\ UNCHANGED avars
    /\ UNCHANGED fvars
    /\ UNCHANGED hvars

\* mutant: an engine error is propagated with `?` instead of falling back
MainRouteSwiplNoFallback ==
    /\ r_pc = "route"
    /\ payload.intent # "unknown"
    /\ \E ans \in SwiplAnswers :
         LET r == prolog_decide_via_json(payload, ans, weather_configured) IN
         /\ decision' = IF r.ok THEN Some(r.val) ELSE None
         /\ r_pc' = IF r.ok THEN AfterDecision(r.val) ELSE "done"
         /\ probe' = Some([engine |-> "swipl", answer |-> ans])
    /\ UNCHANGED <<payload, raw_date, weather_configured, tool_result, printed>>
    /\ UNCHANGED pvars
    /\ UNCHANGED avars
    /\ UNCHANGED fvars
    /\ UNCHANGED hvars

\* lines 1132-1144 (swipl-backend)
MainRouteSwipl ==
    /\ r_pc = "route"
    /\ payload.intent # "unknown"
    /\ \E ans \in SwiplAnswers :
         LET r == prolog_decide_via_json(payload, ans, weather_configured)
             d == IF r.ok THEN r.val
                  ELSE prolog_decide_stub(payload, weather_configured)
         IN  /\ decision' = Some(d)
             /\ r_pc' = AfterDecision(d)
             /\ probe' = Some([engine |-> "swipl", answer |-> ans])
    /\ UNCHANGED <<payload, raw_date, weather_configured, tool_result, printed>>
    /\ UNCHANGED pvars
    /\ UNCHANGED avars
    /\ UNCHANGED fvars
    /\ UNCHANGED hvars

\* lines 1118-1130 (scryer-backend)
MainRouteScryer ==
    /\ r_pc = "route"
    /\ payload.intent # "unknown"
    /\ \E ans \in ScryerAnswers(payload, weather_configured) :
         LET r == scryer_decide(ans)
             d == IF r.ok THEN r.val
                  ELSE prolog_decide_stub(payload, weather_configured)
         IN  /\ decision' = Some(d)
             /\ r_pc' = AfterDecision(d)
             /\ probe' = Some([engine |-> "scryer", answer |-> ans])
    /\ UNCHANGED <<payload, raw_date, weather_configured, tool_result, printed>>
    /\ UNCHANGED pvars
    /\ UNCHANGED avars
    /\ UNCHANGED fvars
    /\ UNCHANGED hvars

\* lines 1161-1168
MainRunTool ==
    /\ r_pc = "tool"
    /\ \E env \in RunEnvs :
         LET r == run_tool(decision.val.tool, decision.val.args, env,
                           weather_configured)
         IN  tool_result' = Some([tool |-> decision.val.tool,
                                  output |-> r.output, failed |-> r.failed])
    /\ r_pc' = "done"
    /\ UNCHANGED <<payload, raw_date, weather_configured, probe, decision, printed>>
    /\ UNCHANGED pvars
    /\ UNCHANGED avars
    /\ UNCHANGED fvars
    /\ UNCHANGED hvars

RouteNext ==
    \/ MainExtract
    \/ MainUnknown
    \/ MainRouteStub
    \/ MainRouteSwipl
    \/ MainRouteScryer
    \/ MainRunTool

----------------------------------------------------------------------------
(* The rule engines across decide calls: prolog.rs 10-37, scryer.rs 13-28 *)

RouterPaths == {"router.pl", "rules/alt.pl"}

EngineInit ==
    /\ ENGINE = None
    /\ machines = 0
    /\ decides = <<>>
    /\ store = <<>> /\ disk = <<>> /\ mutex = None /\ tasks = <<>>
    /\ sends = 0 /\ committed = <<>>
    /\ ParserIdle
    /\ AgentIdle
    /\ RouteIdle
    /\ FnIdle

\* get_engine, prolog.rs 13-15: ENGINE.get_or_init(Engine::new)
get_engine(engine, built) ==
    IF engine.some THEN engine.val
    ELSE [id |-> built + 1, consulted |-> {}]

\* prolog_decide_via_json, prolog.rs 18-37: the engine of the process is
\* activated and router_path is consulted into it; loads is whether the
\* consult goal succeeds (line 35)
PrologDecideViaJson ==
    /\ Len(decides) < MaxDecides
    /\ \E router_path \in RouterPaths, loads \in BOOLEAN :
         LET engine == get_engine(ENGINE, machines) IN
         /\ machines' = IF ENGINE.some THEN machines ELSE machines + 1
         /\ ENGINE' = Some([engine EXCEPT !.consulted =
                               IF loads THEN @ \cup {router_path} ELSE @])
         /\ decides' = Append(decides,
                [backend |-> "swipl", router_path |-> router_path,
                 engine |-> engine.id, visible |-> engine.consulted,
                 loaded |-> loads])
    /\ UNCHANGED <<svars, pvars, avars, rvars, fvars>>

\* scryer_decide, scryer.rs 13-28: a machine is built for the call, the
\* rule file is read (line 23, readable) and consulted into it, and the
\* machine is dropped when the call returns
ScryerDecide ==
    /\ Len(decides) < MaxDecides
    /\ \E router_path \in RouterPaths, readable \in BOOLEAN :
         LET machine == [id |-> machines + 1, consulted |-> {}] IN
         /\ machines' = machines + 1
         /\ decides' = Append(decides,
                [backend |-> "scryer", router_path |-> router_path,
                 engine |-> machine.id, visible |-> machine.consulted,
                 loaded |-> readable])
    /\ UNCHANGED <<ENGINE, svars, pvars, avars, rvars, fvars>>

EngineNext == PrologDecideViaJson \/ ScryerDecide

----------------------------------------------------------------------------
(* The GUI host's conversation store: tauri-app lib.rs 18-77, 158-345.    *)
(* Timestamps are left out.  run_agent_loop_with_events belongs to the    *)
(* core crate's agent module; the events of a run are taken from the      *)
(* AgentEvent variants the host handles (lines 126-147).                  *)

Tasks == {1, 2}

\* a conversation_id given by the caller, or the one generated at line 168
ConvIds == {"c1", "conv_1762255000000"}

\* StoredMessage, lines 88-94
StoredMessage(role, content, result) ==
    [role |-> role, content |-> content, tool_result |-> result]

\* the events a run sends before it returns
ToolEvents ==
    {[type |-> "tool_result", tool |-> "search_notes", success |-> TRUE,
      output |-> "notes data"]}

\* lines 190-216: what the event forwarding task collects for storage
Collect(msgs, event) ==
    IF event.type = "tool_result"
    THEN Append(msgs, StoredMessage("tool", "Tool: " \o event.tool,
                        Some([tool |-> event.tool, success |-> event.success,
                              output |-> event.output, args |-> None])))
    ELSE IF event.type = "final_answer"
    THEN Append(msgs, StoredMessage("assistant", event.answer, None))
    ELSE msgs

IdleTask ==
    [pc |-> "idle", conv_id |-> "", message |-> "", events |-> <<>>,
     collected |-> <<>>, result |-> None, conv |-> None, overlap |-> FALSE]

\* setup, lines 97-102: the store is loaded from disk and put behind the Mutex
StoreInit ==
    /\ store = [id \in ConvIds |-> None]
    /\ disk = store
    /\ mutex = None
    /\ tasks = [t \in Tasks |-> IdleTask]
    /\ sends = 0
    /\ committed = [id \in ConvIds |-> <<>>]
    /\ ENGINE = None /\ machines = 0 /\ decides = <<>>
    /\ ParserIdle
    /\ AgentIdle
    /\ RouteIdle
    /\ FnIdle

\* mutant: the lock is granted while another task holds it
MutexFreeAlways(m) == TRUE

\* Mutex::lock returns when no other task holds the mutex
MutexFree(m) == m = None

\* mutant: the conversation is saved whatever the run returned
ShouldSaveAlways(result) == TRUE

\* line 261: if let Ok(_answer) = &result
ShouldSave(result) == result.ok

\* lines 158-176: a send_message call starts; the agent runs on a blocking
\* thread and the forwarding task collects its events
SendMessage(t) ==
    /\ tasks[t].pc = "idle"
    /\ sends < MaxSends
    /\ \E id \in ConvIds :
         tasks' = [tasks EXCEPT ![t] =
                      [IdleTask EXCEPT !.pc = "run", !.conv_id = id,
                                       !.message = "message " \o ToString(sends + 1)]]
    /\ sends' = sends + 1
    /\ UNCHANGED <<store, disk, mutex, committed>>
    /\ UNCHANGED <<evars, pvars, avars, rvars, fvars>>

\* lines 178-223: the run sends an event, the forwarding task receives it
AgentSendsEvent(t) ==
    /\ tasks[t].pc = "run"
    /\ Len(tasks[t].events) < MaxEvents
    /\ \E event \in ToolEvents :
         tasks' = [tasks EXCEPT ![t].events = Append(@, event),
                                ![t].collected = Collect(@, event)]
    /\ UNCHANGED <<store, disk, mutex, sends, committed>>
    /\ UNCHANGED <<evars, pvars, avars, rvars, fvars>>

\* lines 226-259: the run returns Ok(answer) after its FinalAnswer event,
\* the task is joined and the forwarding task has drained the channel
AgentReturnsOk(t) ==
    /\ tasks[t].pc = "run"
    /\ LET event == [type |-> "final_answer", answer |-> "done"] IN
         tasks' = [tasks EXCEPT ![t].events = Append(@, event),
                                ![t].collected = Collect(@, event),
                                ![t].result = [ok |-> TRUE, value |-> "done"],
                                ![t].pc = "joined"]
    /\ UNCHANGED <<store, disk, mutex, sends, committed>>
    /\ UNCHANGED <<evars, pvars, avars, rvars, fvars>>

\* lines 226-259: the run returns Err after its Error event
AgentReturnsErr(t) ==
    /\ tasks[t].pc = "run"
    /\ LET event == [type |-> "error", message |-> "llm: timeout"] IN
         tasks' = [tasks EXCEPT ![t].events = Append(@, event),
                                ![t].collected = Collect(@, event),
                                ![t].result = [ok |-> FALSE, error |-> "llm: timeout"],
                                ![t].pc = "joined"]
    /\ UNCHANGED <<store, disk, mutex, sends, committed>>
    /\ UNCHANGED <<evars, pvars, avars, rvars, fvars>>

\* lines 261-263 not taken: the run failed, or app_data_dir() is not available
SendSkipsSave(t) ==
    /\ tasks[t].pc = "joined"
    /\ \E data_dir \in BOOLEAN : ~(ShouldSave(tasks[t].result) /\ data_dir)
    /\ tasks' = [tasks EXCEPT ![t].pc = "done"]
    /\ UNCHANGED <<store, disk, mutex, sends, committed>>
    /\ UNCHANGED <<evars, pvars, avars, rvars, fvars>>

\* lines 261-265: state.lock()
SendLocks(t) ==
    /\ tasks[t].pc = "joined"
    /\ ShouldSave(tasks[t].result)
    /\ MutexFree(mutex)
    /\ mutex' = Some(t)
    /\ tasks' = [tasks EXCEPT
                    ![t].pc = "locked",
                    ![t].overlap =
                        \E u \in Tasks \ {t} :
                           /\ tasks[u].pc \in {"run", "joined"}
                           /\ tasks[u].conv_id = tasks[t].conv_id]
    /\ UNCHANGED <<store, disk, sends, committed>>
    /\ UNCHANGED <<evars, pvars, avars, rvars, fvars>>

\* lines 267-275: store.get(&conv_id).cloned().unwrap_or_else(new conversation)
SendGets(t) ==
    /\ tasks[t].pc = "locked"
    /\ LET id == tasks[t].conv_id IN
         tasks' = [tasks EXCEPT
                     ![t].pc = "got",
                     ![t].conv = IF store[id].some THEN store[id]
                                 ELSE Some([title |-> tasks[t].message,
                                            messages |-> <<>>])]
    /\ UNCHANGED <<store, disk, mutex, sends, committed>>
    /\ UNCHANGED <<evars, pvars, avars, rvars, fvars>>

\* lines 277-291: push the user message, extend with the collected messages,
\* store.upsert
SendUpserts(t) ==
    /\ tasks[t].pc = "got"
    /\ LET id == tasks[t].conv_id
           added == <<StoredMessage("user", tasks[t].message, None)>>
                    \o tasks[t].collected
           conv == [tasks[t].conv.val EXCEPT !.messages = @ \o added]
       IN  /\ store' = [store EXCEPT ![id] = Some(conv)]
           /\ committed' = [committed EXCEPT ![id] = @ \o added]
    /\ tasks' = [tasks EXCEPT ![t].pc = "upserted"]
    /\ UNCHANGED <<disk, mutex, sends>>
    /\ UNCHANGED <<evars, pvars, avars, rvars, fvars>>

\* lines 292-294: let _ = store.save(&data_dir), then the guard is dropped
SendSaves(t) ==
    /\ tasks[t].pc = "upserted"
    /\ \E saved \in BOOLEAN : disk' = IF saved THEN store ELSE disk
    /\ mutex' = None
    /\ tasks' = [tasks EXCEPT ![t].pc = "done"]
    /\ UNCHANGED <<store, sends, committed>>
    /\ UNCHANGED <<evars, pvars, avars, rvars, fvars>>

\* lines 297-302: the command returns the result
SendReturns(t) ==
    /\ tasks[t].pc = "done"
    /\ tasks' = [tasks EXCEPT ![t] = IdleTask]
    /\ UNCHANGED <<store, disk, mutex, sends, committed>>
    /\ UNCHANGED <<evars, pvars, avars, rvars, fvars>>

\* list_conversations, lines 318-322, and get_conversation, lines 326-330:
\* the store is read under the lock and left as it is
ReadConversations ==
    /\ MutexFree(mutex)
    /\ UNCHANGED <<store, disk, mutex, tasks, sends, committed>>
    /\ UNCHANGED <<evars, pvars, avars, rvars, fvars>>

\* delete_conversation, lines 334-345
DeleteConversation ==
    /\ MutexFree(mutex)
    /\ \E id \in ConvIds, saved \in BOOLEAN :
         LET deleted == store[id].some
             after == [store EXCEPT ![id] = None]
         IN  /\ store' = after
             /\ disk' = IF deleted /\ saved THEN after ELSE disk
             /\ committed' = [committed EXCEPT ![id] = <<>>]
    /\ UNCHANGED <<mutex, tasks, sends>>
    /\ UNCHANGED <<evars, pvars, avars, rvars, fvars>>

StoreNext ==
    \/ \E t \in Tasks :
          \/ SendMessage(t)
          \/ AgentSendsEvent(t)
          \/ AgentReturnsOk(t)
          \/ AgentReturnsErr(t)
          \/ SendSkipsSave(t)
          \/ SendLocks(t)
          \/ SendGets(t)
          \/ SendUpserts(t)
          \/ SendSaves(t)
          \/ SendReturns(t)
    \/ ReadConversations
    \/ DeleteConversation

vars == <<pvars, avars, rvars, fvars, hvars>>

SpecParse == ParseInit /\ [][ParseNext]_vars

SpecAgent == AgentInit /\ [][AgentNext]_vars

\* the loop with config.verbose = true (main.rs 1053 with --verbose)
AgentVerboseNext == AgentNext \/ AgentCallToolPanic

SpecAgentVerbose == AgentInit /\ [][AgentVerboseNext]_vars

SpecRoute == RouteInit /\ [][RouteNext]_vars

SpecDate == DateInit /\ [][DateNext]_vars

SpecEncode == EncodeInit /\ [][EncodeNext]_vars

SpecEngine == EngineInit /\ [][EngineNext]_vars

SpecStore == StoreInit /\ [][StoreNext]_vars

\* main: agent mode (lines 1043-1059) or single-shot mode
Init == AgentInit \/ RouteInit
Next == AgentNext \/ RouteNext
Spec == Init /\ [][Next]_vars

\* every call_llm and execute_tool returns, so a running loop takes its next step
FairSpecAgent == SpecAgent /\ WF_vars(AgentNext)

----------------------------------------------------------------------------
(* Properties of parse_agent_action *)

Max(S) == CHOOSE x \in S : \A y \in S : y <= x

\* the candidates met by the scan that parse as an AgentAction
ValidCands == {i \in 1..Len(cands) : cands[i].action.some}

NoValidAction == "No valid agent action JSON found in LLM output"

\* C3: the parser returns the last of the objects met in its left-to-right
\* scan that parses as an AgentAction, and fails with the no-valid-action
\* error exactly when none of them does; when the fast path answers, the
\* whole text is the single object a scan meets.
C3_LastValidWins ==
    p_pc = "done" =>
        IF cands = <<>> /\ p_result.ok
        THEN /\ MatchEnd(s, 0) = Some(Len(s))
             /\ p_result.action = FromStr(s).val
        ELSE /\ ~FindBrace(s, search_start).some
             /\ p_result.ok <=> ValidCands # {}
             /\ p_result.ok =>
                   p_result.action = cands[Max(ValidCands)].action.val
             /\ ~p_result.ok => p_result.error = NoValidAction

\* two valid actions in sequence: the second is returned
C3_Witness ==
    /\ p_pc = "done"
    /\ Len(cands) = 2
    /\ cands[1].action.some
    /\ cands[2].action.some
    /\ cands[1].action # cands[2].action
    /\ p_result = [ok |-> TRUE, action |-> cands[2].action.val]

----------------------------------------------------------------------------
(* Properties of run_agent_loop *)

Last(q) == q[Len(q)]

\* what parse_agent_action makes of each response text
ActionOfResponse == [text \in Responses |-> parse_agent_action(text)]

\* the action call_llm_for_action parsed from the response recorded in la
ParsedOf(la) ==
    IF la.some /\ la.val.kind = "response"
    THEN ActionOfResponse[la.val.text] ELSE None

\* la records a response from which no action can be parsed
Unparseable(la) == la.some /\ la.val.kind = "response" /\ ~ParsedOf(la).some

Parsed(la, kind) == ParsedOf(la).some /\ ParsedOf(la).val.action = kind

\* C1: for every max_turns the loop makes at most max_turns LLM requests and
\* at most max_turns tool calls; a run in which every response was a
\* CallTool ends after exactly max_turns tool calls with the max-turns
\* message quoting the content of the last transcript message.
C1_TurnCeiling ==
    /\ Len(requests) <= max_turns
    /\ Len(tool_calls) <= max_turns
    /\ (a_pc = "done" /\ Len(tool_calls) = Len(requests)) =>
          /\ Len(tool_calls) = max_turns
          /\ a_result = [ok |-> TRUE,
                         value |-> "Max turns (" \o ToString(max_turns)
                                   \o ") reached. Last context: "
                                   \o Last(messages).content]
          /\ Last(messages).content =
                IF max_turns = 0 THEN query
                ELSE "Called tool " \o Last(tool_calls).tool
                     \o " with args: " \o Last(tool_calls).args

C1_Witness ==
    /\ a_pc = "done"
    /\ max_turns = 3
    /\ Len(tool_calls) = 3
    /\ Len(requests) = 3
    /\ a_result.ok

\* C2: a turn whose response yields no AgentAction fails the whole call
\* with an error, executes no tool, appends nothing to the transcript and
\* does not count as a turn.
C2_ParseFailureFailsCall ==
    [][ (requests' # requests /\ Unparseable(last_action')) =>
            /\ a_pc' = "done"
            /\ ~a_result'.ok
            /\ tool_calls' = tool_calls
            /\ messages' = messages
            /\ turn_count' = turn_count ]_vars

C2_Witness ==
    /\ a_pc = "done"
    /\ Unparseable(last_action)
    /\ ~a_result.ok
    /\ Len(tool_calls) >= 1

\* C4: a turn whose action is AskUser ends the run with "Need more
\* information: <question>" without executing a tool or appending a
\* message, and nothing happens after it.
C4_AskUserTerminal ==
    /\ [][ (requests' # requests /\ Parsed(last_action', "ask_user")) =>
              /\ a_pc' = "done"
              /\ a_result' = [ok |-> TRUE,
                              value |-> "Need more information: "
                                        \o ParsedOf(last_action').val.question]
              /\ tool_calls' = tool_calls
              /\ messages' = messages ]_vars
    /\ [][ Parsed(last_action, "ask_user") => UNCHANGED vars ]_vars

C4_Witness ==
    /\ Parsed(last_action, "ask_user")
    /\ a_pc = "done"
    /\ turn_count < max_turns
    /\ Len(tool_calls) >= 1

\* C5: a turn whose action is FinalAnswer ends the run returning exactly
\* the answer, without executing a tool or appending a message, and no
\* further request follows.
C5_FinalAnswerReturned ==
    /\ [][ (requests' # requests /\ Parsed(last_action', "final_answer")) =>
              /\ a_pc' = "done"
              /\ a_result' = [ok |-> TRUE,
                              value |-> ParsedOf(last_action').val.answer]
              /\ tool_calls' = tool_calls
              /\ messages' = messages ]_vars
    /\ [][ Parsed(last_action, "final_answer") => requests' = requests ]_vars

C5_Witness ==
    /\ Parsed(last_action, "final_answer")
    /\ a_pc = "done"
    /\ a_result = [ok |-> TRUE, value |-> "hi"]
    /\ Len(messages) = 3

\* C6: when every LLM request and tool execution returns, every run ends
\* with a result.
C6_Terminates == <>(a_pc = "done" /\ a_result # None)

C6_Witness ==
    /\ a_pc = "done"
    /\ last_action = Some([kind |-> "max_turns"])
    /\ turn_count = max_turns
    /\ max_turns >= 2

----------------------------------------------------------------------------
(* Properties of tool execution: execute_tool in the loop, run_tool in main *)

Marker(tool) == "[error] " \o tool \o ": " \o ErrText

\* C7 as stated: every failed tool execution hands back a result string
\* carrying the marker "[error] <tool>: <message>", in the loop and in the CLI.
C7_FailureCarriesMarker ==
    /\ \A i \in 1..Len(tool_calls) :
          ~tool_calls[i].success => tool_calls[i].output = Marker(tool_calls[i].tool)
    /\ (tool_result.some /\ tool_result.val.failed # {}) =>
          tool_result.val.output = Marker(tool_result.val.tool)

\* C7 (amended): a failed tool execution is never fatal.  In the loop it is
\* recorded as a Tool message with success = false whose output is
\* "Error: <message>" ("Apple Notes error: <message>" for a notes tool), the
\* turn is counted and the run can only end in an error through a failed LLM
\* request or an unparseable response.  In the CLI a failing endpoint yields
\* "[error] <tool>: <message>", a failing Apple Weather call alone yields the
\* endpoint's or the stub's output, and main completes.
C7_ToolFailureNonFatal ==
    /\ \A i \in 1..Len(tool_calls) :
          LET c == tool_calls[i] IN
          /\ ~c.success =>
                \/ c.output = "Error: " \o ErrText
                \/ c.tool \in NotesTools /\ c.output = "Apple Notes error: " \o ErrText
          /\ c.turn = i
          /\ messages[2 * i] = MessageTool(c.tool, c.success, c.output)
    /\ a_pc = "loop" => turn_count = Len(tool_calls)
    /\ (a_pc = "done" /\ ~a_result.ok) =>
          last_action.val.kind = "llm_error" \/ Unparseable(last_action)
    /\ tool_result.some =>
          LET r == tool_result.val IN
          /\ r_pc = "done"
          /\ "endpoint" \in r.failed => r.output = Marker(r.tool)
          /\ r.failed = {"apple_weather"} =>
                r.output \in {"endpoint data",
                              run_tool_stub(r.tool, ArgsJson(decision.val.args))}

\* a tool failed in the first turn and the loop went on to a second tool call
C7_Witness ==
    /\ Len(tool_calls) >= 2
    /\ ~tool_calls[1].success
    /\ tool_calls[1].output = "Error: " \o ErrText
    /\ a_pc = "loop"

----------------------------------------------------------------------------
(* Properties of the routing call of main through Engine-A and Engine-B *)

NativeOf == prolog_decide_stub(payload, weather_configured)

Probed(engine) == probe.some /\ probe.val.engine = engine /\ decision.some

\* the calls that return Err: load failures and engine errors
EngineErrorKinds ==
    {"consult_parse_error", "consult_failed", "query_parse_error",
     "read_error", "tool_unbound", "tool_not_atom", "missing_required_bad_field"}

\* a failure, or an exception that is no known missing_required signal
Inconclusive(engine, ans) ==
    \/ ans.kind \in {"failure", "exception", "none", "false"}
    \/ /\ engine = "swipl"
       /\ ans.kind = "missing_required"
       /\ ans.field \notin {"date", "location", "recipient", "topic"}

\* the NeedInfo question each engine builds for a missing field
EngineQuestion(field) ==
    CASE field = "date" -> "When is this due? (e.g., tomorrow, next Friday)"
      [] field = "location" -> "What location should I use?"
      [] field = "recipient" -> "Who should I email?"
      [] OTHER -> "What " \o field \o " should I use?"

FieldOfQuestion(question) ==
    CASE question \in {"When is this due? (e.g., tomorrow, next Friday)",
                       "When is this due? (e.g., tomorrow, next Friday, 2026-02-01)"}
           -> "date"
      [] question = "What location should I use?" -> "location"
      [] question = "Who should I email?" -> "recipient"
      [] question \in {"What topic should I use?", "What should I remind you about?",
                       "What should I summarize?", "What should I find?"}
           -> "topic"
      [] OTHER -> question

DecisionClass(d) ==
    CASE d.type = "route" -> <<"success">>
      [] d.type = "need_info" -> <<"missing", FieldOfQuestion(d.question)>>
      [] OTHER -> <<"failure">>

\* ans is what the engine answers when it runs the rule file on the payload
RuleFileAnswer(engine, ans) ==
    LET r == router_rules(payload, weather_configured) IN
    CASE r.kind = "success" ->
           IF engine = "swipl" THEN ans.kind = "success"
           ELSE ans.kind = "bindings" /\ ans.tool = r.tool /\ ans.args = r.args
      [] r.kind = "missing_required" ->
           ans.kind = "missing_required" /\ ans.field = r.field
      [] OTHER -> ans.kind \in {"failure", "none", "false"}

----------------------------------------------------------------------------
(* Properties of the Native strategy and of the Unknown filter of main *)

RequiredArgs(tool) ==
    CASE tool \in {"search_notes", "search_files"} -> {"query"}
      [] tool \in {"get_weather", "get_apple_weather"} -> {"location"}
      [] tool = "draft_email" -> {"to"}
      [] tool = "create_todo" -> {"title", "due"}
      [] OTHER -> {}

\* C11 as stated: a Route produced by the Native strategy never carries an
\* empty string in a required field (query, location, to, title, due).
C11_NoEmptyRequired ==
    (Probed("native") /\ decision.val.type = "route") =>
        \A k \in RequiredArgs(decision.val.tool) : decision.val.args[k] # ""

\* C12: a payload whose intent is Unknown after extraction and overlays
\* reaches no decision strategy: main prints the fixed need_info response
\* and returns, no probe is made, no Decision is built and no tool is run.
C12_UnknownFiltered ==
    /\ [][ (r_pc = "route" /\ payload.intent = "unknown") =>
              /\ r_pc' = "done"
              /\ printed' = Some(UnknownResponse) ]_vars
    /\ [][ (r_pc \in {"route", "tool", "done"} /\ payload.intent = "unknown") =>
              /\ probe' = None
              /\ decision' = None
              /\ tool_result' = None ]_vars

C12_Witness ==
    /\ r_pc = "done"
    /\ payload.intent = "unknown"
    /\ payload.entities.location.some
    /\ printed = Some(UnknownResponse)
    /\ probe = None /\ decision = None /\ tool_result = None

\* C13: for Summarize and Find the query text is topic if present, else
\* query if present, else empty; an empty text gives NeedInfo("What should I
\* <intent>?"), any other gives Route with args {query: text, scope: "user"}
\* and tool search_notes exactly when source_preference is Notes,
\* search_files for Files and Either.
C13_SummarizeFindRule ==
    (Probed("native") /\ payload.intent \in {"summarize", "find"}) =>
        LET e == payload.entities
            pref == payload.constraints.source_preference
            text == IF e.topic.some THEN e.topic.val
                    ELSE IF e.query.some THEN e.query.val ELSE ""
            d == decision.val
        IN  /\ text = "" => d = NeedInfo("What should I " \o payload.intent \o "?")
            /\ text # "" =>
                  /\ d.type = "route"
                  /\ d.args = [query |-> text, scope |-> "user"]
                  /\ d.tool = "search_notes" <=> pref = "notes"
                  /\ pref \in {"files", "either"} => d.tool = "search_files"

\* no topic, so the query is searched, and Either goes to the files
C13_Witness ==
    /\ Probed("native")
    /\ payload.intent = "summarize"
    /\ ~payload.entities.topic.some
    /\ payload.entities.query = Some("ml")
    /\ payload.constraints.source_preference = "either"
    /\ decision.val = Route("search_files", [query |-> "ml", scope |-> "user"])

\* C14: for Remind the topic is checked before the date: without topic the
\* Decision is NeedInfo("What should I remind you about?") whether or not a
\* date is set, with topic and without date it is the "When is this due?"
\* question, and with both it is Route to create_todo with args
\* {title: topic, due: date, priority: priority or "normal"}.
C14_RemindRule ==
    (Probed("native") /\ payload.intent = "remind") =>
        LET e == payload.entities
            d == decision.val
        IN  /\ ~e.topic.some => d = NeedInfo("What should I remind you about?")
            /\ (e.topic.some /\ ~e.date.some) =>
                  d = NeedInfo("When is this due? (e.g., tomorrow, next Friday, 2026-02-01)")
            /\ (e.topic.some /\ e.date.some) =>
                  /\ d.type = "route"
                  /\ d.tool = "create_todo"
                  /\ d.args = [title |-> e.topic.val, due |-> e.date.val,
                               priority |-> IF e.priority.some THEN e.priority.val
                                            ELSE "normal"]

\* topic and date are both missing: the topic is asked for
C14_Witness ==
    /\ Probed("native")
    /\ payload.intent = "remind"
    /\ ~payload.entities.topic.some
    /\ ~payload.entities.date.some
    /\ decision.val = NeedInfo("What should I remind you about?")

\* C15: for Weather a payload without location gives NeedInfo("What location
\* should I use?") whatever else is set; with location it gives Route whose
\* args hold location and hold date, date_end and weather_query exactly when
\* the entity is present, to get_apple_weather when the provider is
\* configured and to get_weather otherwise.
C15_WeatherRule ==
    (Probed("native") /\ payload.intent = "weather") =>
        LET e == payload.entities
            d == decision.val
            optional == {"date", "date_end", "weather_query"}
        IN  /\ ~e.location.some => d = NeedInfo("What location should I use?")
            /\ e.location.some =>
                  /\ d.type = "route"
                  /\ d.tool = IF weather_configured THEN "get_apple_weather"
                              ELSE "get_weather"
                  /\ DOMAIN d.args = {"location"} \cup {k \in optional : e[k].some}
                  /\ d.args["location"] = e.location.val
                  /\ \A k \in optional : e[k].some => d.args[k] = e[k].val

C15_Witness ==
    /\ Probed("native")
    /\ payload.intent = "weather"
    /\ weather_configured
    /\ payload.entities.location = Some("Seattle")
    /\ ~payload.entities.date.some
    /\ payload.entities.date_end.some
    /\ payload.entities.weather_query.some
    /\ decision.val = Route("get_apple_weather",
                            [location |-> "Seattle", date_end |-> "2026-02-03",
                             weather_query |-> "forecast"])

----------------------------------------------------------------------------
(* Properties of the term encoders *)

RECURSIVE ReadQuoted(_, _, _, _)
\* the content of a quoted Prolog text whose opening quote q precedes t[i]:
\* a backslash escapes a backslash or a quote, the first bare q ends it
ReadQuoted(t, i, q, acc) ==
    IF i > Len(t) THEN [ok |-> FALSE]
    ELSE IF t[i] = BS
    THEN IF i + 1 <= Len(t) /\ t[i + 1] \in {BS, QT, SQ}
         THEN ReadQuoted(t, i + 2, q, Append(acc, t[i + 1]))
         ELSE [ok |-> FALSE]
    ELSE IF t[i] = q THEN [ok |-> TRUE, val |-> acc, next |-> i + 1]
    ELSE ReadQuoted(t, i + 1, q, Append(acc, t[i]))

RECURSIVE ReadPairs(_, _, _, _, _, _)
\* the key/value pairs written from t[i] on, up to the closing bracket:
\* key, sep, then a text quoted by q or a bare atom; pairs are split by ", "
ReadPairs(t, i, sep, q, close, acc) ==
    IF i + 2 > Len(t) \/ t[i] \notin Slots \/ t[i] \in DOMAIN acc \/ t[i + 1] # sep
    THEN [ok |-> FALSE]
    ELSE LET v == IF t[i + 2] = q THEN ReadQuoted(t, i + 3, q, <<>>)
                  ELSE IF t[i + 2] \in WeatherQueryTypes
                  THEN [ok |-> TRUE, val |-> t[i + 2], next |-> i + 3]
                  ELSE [ok |-> FALSE]
         IN  IF ~v.ok THEN [ok |-> FALSE]
             ELSE IF v.next = Len(t) /\ t[v.next] = close
             THEN [ok |-> TRUE, val |-> acc @@ (t[i] :> v.val)]
             ELSE IF v.next + 2 <= Len(t) /\ t[v.next] = "," /\ t[v.next + 1] = " "
             THEN ReadPairs(t, v.next + 2, sep, q, close, acc @@ (t[i] :> v.val))
             ELSE [ok |-> FALSE]

\* what a Prolog reader makes of a dict text _{k:"v", ...}
DecodeDict(t) ==
    IF Len(t) >= 3 /\ t[1] = "_" /\ t[2] = "{"
    THEN IF Len(t) = 3 /\ t[3] = "}" THEN [ok |-> TRUE, val |-> NoArgs]
         ELSE ReadPairs(t, 3, ":", QT, "}", NoArgs)
    ELSE [ok |-> FALSE]

\* what a Prolog reader makes of a pair list [k-'v', ...]
DecodeList(t) ==
    IF Len(t) >= 2 /\ t[1] = "["
    THEN IF Len(t) = 2 /\ t[2] = "]" THEN [ok |-> TRUE, val |-> NoArgs]
         ELSE ReadPairs(t, 2, "-", SQ, "]", NoArgs)
    ELSE [ok |-> FALSE]

\* a dict value of weather_query is a quoted string holding the name
UnquoteName(v) == IF Len(v) = 1 /\ v[1] \in WeatherQueryTypes THEN v[1] ELSE v

SomeFields(e) == [k \in {x \in Slots : e[x].some} |-> e[k].val]

\* C16: for every Entities value the dict encoding and the list encoding
\* hold exactly the keys of the fields that are Some, each with the field's
\* string after un-escaping (weather_query quoted in the dict, a bare atom
\* in the list), and no key for a None field.
C16_EncodingsAgree ==
    /\ f_output.dict.some =>
          LET d == DecodeDict(f_output.dict.val) IN
          /\ d.ok
          /\ [k \in DOMAIN d.val |->
                 IF k = "weather_query" THEN UnquoteName(d.val[k]) ELSE d.val[k]]
             = SomeFields(f_input)
    /\ f_output.list.some =>
          LET l == DecodeList(f_output.list.val) IN
          /\ l.ok
          /\ l.val = SomeFields(f_input)

\* a topic with a backslash and both quotes, next to a weather_query
C16_Witness ==
    /\ f_pc = "done"
    /\ f_output.dict.some /\ f_output.list.some
    /\ f_input.topic = Some(<<"a", BS, SQ>>)
    /\ f_input.weather_query = Some("forecast")
    /\ ~f_input.date.some
    /\ f_output.list.val = <<"[", "topic", "-", SQ, "a", BS, BS, BS, SQ, SQ, ",", " ",
                             "weather_query", "-", "forecast", "]">>
    /\ f_output.dict.val = <<"_", "{", "topic", ":", QT, "a", BS, BS, SQ, QT, ",", " ",
                             "weather_query", ":", QT, "forecast", QT, "}">>

----------------------------------------------------------------------------
(* Properties of date resolution *)

\* the text asks for N days: "next N days" with N a u64
NextDaysOf(str) ==
    LET rest == StripNext(LowerTrim(str))
        days_str == IF rest.some THEN StripDays(rest.val) ELSE None
    IN  IF days_str.some THEN ParseU64(Trim(days_str.val)) ELSE None

\* the weekday a text names, bare or after "next "
WeekdayOf(str) ==
    LET trimmed == LowerTrim(str) IN
    IF StripNext(trimmed).some /\ parse_weekday(StrOf(Trim(StripNext(trimmed).val))).some
    THEN parse_weekday(StrOf(Trim(StripNext(trimmed).val)))
    ELSE parse_weekday(StrOf(trimmed))

\* today, tomorrow, next <weekday>, next week, this weekend, next N days
RelativeToken(str) ==
    \/ LowerTrim(str) \in {<<"today">>, <<"tomorrow">>, <<"next", " ", "week">>,
                           <<"this", " ", "weekend">>}
    \/ StripNext(LowerTrim(str)).some /\ WeekdayOf(str).some
    \/ NextDaysOf(str).some

AbsoluteDates == {format_date(d) : d \in 1..31} \cup {"2026-02-01", "2026-02-03"}

\* C17 as stated: when entities.date, after the CLI overlays, was a relative
\* token, the decision strategy receives an absolute YYYY-MM-DD date.
C17_DateNormalized ==
    (probe.some /\ raw_date.some /\ RelativeToken(raw_date.val)) =>
        payload.entities.date.val \in AbsoluteDates

\* C18: for every date from and every target weekday the weekday resolver
\* returns a date d that falls on the target with 1 <= d - from <= 7, which
\* is from + 7 when from falls on the target; the scalar resolver returns
\* that date for a bare weekday name and for "next <weekday>".
C18_NextWeekday ==
    f_pc = "done" =>
       /\ f_input.fn = "next_weekday" =>
             LET d == f_output.val IN
             /\ DaysFromMonday(d) = f_input.target
             /\ 1 <= d - f_input.from /\ d - f_input.from <= 7
             /\ DaysFromMonday(f_input.from) = f_input.target =>
                   d = f_input.from + 7
       /\ (f_input.fn = "resolve_relative_date" /\ WeekdayOf(f_input.date_str).some) =>
             \E d \in (f_input.today + 1)..(f_input.today + 7) :
                /\ DaysFromMonday(d) = WeekdayOf(f_input.date_str).val
                /\ f_output.val = format_date(d)

\* Saturday asked for on a Saturday: a week later
C18_Witness ==
    /\ f_pc = "done"
    /\ f_input = [fn |-> "next_weekday", from |-> 10, target |-> 5]
    /\ DaysFromMonday(10) = 5
    /\ f_output = Some(17)

C20_ElseSingleDate ==
    ( /\ f_pc = "done" /\ f_input.fn = "resolve_date_range"
         /\ LowerTrim(f_input.date_str) \notin
               {<<"next", " ", "week">>, <<"this", " ", "weekend">>, <<"forecast">>}
         /\ ~NextDaysOf(f_input.date_str).some )
       => f_output.val = DateRange(resolve_relative_date(f_input.date_str,
                                                         f_input.today), None)

\* C20 (amended): every text other than "next week", "next N days", "this
\* weekend" and the texts that contain "forecast" resolves to
\* (resolve_relative_date of the text, None).
C20_ElseSingleDateUnlessForecast ==
    ( /\ f_pc = "done" /\ f_input.fn = "resolve_date_range"
         /\ LowerTrim(f_input.date_str) \notin
               {<<"next", " ", "week">>, <<"this", " ", "weekend">>}
         /\ ~ContainsForecast(LowerTrim(f_input.date_str))
         /\ ~NextDaysOf(f_input.date_str).some )
       => f_output.val = DateRange(resolve_relative_date(f_input.date_str,
                                                         f_input.today), None)

C20_Witness ==
    /\ f_pc = "done"
    /\ f_input = [fn |-> "resolve_date_range", date_str |-> " Next Friday ", today |-> 9]
    /\ f_output = Some(DateRange("2026-01-16", None))


\* C21: for every current date "this weekend" resolves to (S, Some(S+1)) where
\* S is a Saturday not earlier than today (the first one, today included) and
\* S+1 is the Sunday right after it.
C21_ThisWeekend ==
    ( /\ f_pc = "done" /\ f_input.fn = "resolve_date_range"
      /\ LowerTrim(f_input.date_str) = <<"this", " ", "weekend">> )
       => \E S \in f_input.today..(f_input.today + 6) :
             /\ DaysFromMonday(S) = 5
             /\ DaysFromMonday(S + 1) = 6
             /\ f_output.val = DateRange(format_date(S), Some(format_date(S + 1)))

\* asked on a Sunday: the Saturday six days later
C21_Witness ==
    /\ f_pc = "done"
    /\ f_input = [fn |-> "resolve_date_range", date_str |-> "this weekend", today |-> 11]
    /\ DaysFromMonday(11) = 6
    /\ f_output = Some(DateRange("2026-01-17", Some("2026-01-18")))


----------------------------------------------------------------------------
(* Properties of the transcript of run_agent_loop *)

\* C22 as stated: a turn whose action is CallTool executes the tool exactly
\* once, appends exactly two messages, the Tool message ("Tool <tool>
\* returned: <output>" with the structured result {tool, success, output})
\* and then an Assistant message recording the call, and goes on to the next
\* turn.
C22_CallToolAppendsTwo ==
    [][ (requests' # requests /\ Parsed(last_action', "call_tool")) =>
           /\ Len(tool_calls') = Len(tool_calls) + 1
           /\ LET c == tool_calls'[Len(tool_calls')] IN
              /\ c.tool = ParsedOf(last_action').val.tool
              /\ c.args = ParsedOf(last_action').val.args
              /\ Len(messages') = Len(messages) + 2
              /\ SubSeq(messages', 1, Len(messages)) = messages
              /\ messages'[Len(messages) + 1] =
                    [role |-> "tool",
                     content |-> "Tool " \o c.tool \o " returned: " \o c.output,
                     tool_result |-> Some([tool |-> c.tool, success |-> c.success,
                                           output |-> c.output])]
              /\ messages'[Len(messages) + 2].role = "assistant"
              /\ messages'[Len(messages) + 2].tool_result = None
           /\ a_pc' = "loop"
           /\ turn_count' = turn_count + 1 ]_vars


\* the role tags of the transcript format
RoleTag == [user |-> "USER:", assistant |-> "ASSISTANT:", tool |-> "TOOL_RESULT:"]

\* the first n messages, each as its role tag and content, a blank line
\* between entries
RECURSIVE Rendered(_, _)
Rendered(msgs, n) ==
    IF n = 0 THEN ""
    ELSE (IF n = 1 THEN "" ELSE Rendered(msgs, n - 1) \o "\n\n")
         \o RoleTag[msgs[n].role] \o "\n" \o msgs[n].content

\* C23: every LLM request of the loop is self-contained: its input is the
\* system prompt followed by every message the transcript held when the
\* request was made (the i-th request: the query and the i-1 Tool/Assistant
\* pairs before it), in insertion order, each as its role tag plus content,
\* joined by blank lines; the continuation id is never set.
C23_SelfContainedRequests ==
    /\ response_id = None
    /\ \A i \in 1..Len(requests) :
          /\ requests[i].previous_response_id = None
          /\ 2 * i - 1 <= Len(messages)
          /\ requests[i].input =
                system_prompt \o "\n\n" \o Rendered(messages, 2 * i - 1)

\* the second request carries the query, the tool result and the call record
C23_Witness ==
    /\ Len(requests) >= 2
    /\ Len(messages) >= 3
    /\ messages[2].role = "tool" /\ messages[3].role = "assistant"
    /\ requests[2].input =
          "SYSTEM\n\nUSER:\nweather in NYC?\n\nTOOL_RESULT:\n"
          \o messages[2].content \o "\n\nASSISTANT:\n" \o messages[3].content


----------------------------------------------------------------------------
(* Properties of the scan of parse_agent_action *)

\* the number of backslashes that immediately precede position p
RECURSIVE BackslashRun(_, _)
BackslashRun(t, p) ==
    IF p > 1 /\ t[p - 1] = BS THEN 1 + BackslashRun(t, p - 1) ELSE 0

\* position j (1-based) of a candidate that starts at offset start lies
\* inside a double-quoted string literal: a literal opens at a quote outside
\* any literal and closes at the next quote that is not escaped, a quote
\* being escaped when an odd number of backslashes of the literal precede it
RECURSIVE InLiteral(_, _, _)
InLiteral(t, start, j) ==
    IF j <= start + 1 THEN FALSE
    ELSE IF ~InLiteral(t, start, j - 1) THEN t[j - 1] = QT
    ELSE IF t[j - 1] # QT THEN TRUE
    ELSE BackslashRun(t, j - 1) % 2 = 1

\* nesting depth after position j, braces of string literals not counted
Depth(t, start, j) ==
    Cardinality({k \in (start + 1)..j : t[k] = "{" /\ ~InLiteral(t, start, k)})
    - Cardinality({k \in (start + 1)..j : t[k] = "}" /\ ~InLiteral(t, start, k)})

\* the closing braces outside string literals that bring the depth to zero
Closers(t, start) ==
    {j \in (start + 1)..Len(t) :
        t[j] = "}" /\ ~InLiteral(t, start, j) /\ Depth(t, start, j) = 0}

\* C24: braces inside a string literal, and escaped quotes inside it, do not
\* change the nesting depth: a candidate ends at the first "}" outside any
\* string literal that brings the depth back to zero, and has no end when
\* there is none.
C24_BalanceSkipsLiterals ==
    \A k \in 1..Len(cands) :
       LET c == cands[k]
           E == Closers(s, c.start)
       IN  /\ s[c.start + 1] = "{"
           /\ c.end = IF E = {} THEN None
                      ELSE Some(CHOOSE j \in E : \A m \in E : j <= m)

\* a literal holding an escaped quote and a brace, and one ending in an
\* escaped backslash
C24_Witness ==
    /\ p_pc = "done"
    /\ s = <<"{", "T", QT, BS, QT, "{", QT, "}", "{", QT, BS, BS, QT, "}">>
    /\ Len(cands) = 2
    /\ cands[1].end = Some(8)
    /\ cands[2].start = 8 /\ cands[2].end = Some(14)


----------------------------------------------------------------------------
(* Properties of the rule engines across calls *)

\* C25 as stated: every decide call through Engine-A or Engine-B evaluates in
\* an isolated context: its engine instance is the engine of no earlier call
\* and no rule file consulted by an earlier call is loaded in it when the
\* call starts.
C25_IsolatedDecides ==
    \A i \in 1..Len(decides) :
       /\ decides[i].visible = {}
       /\ \A j \in 1..(i - 1) : decides[j].engine # decides[i].engine


----------------------------------------------------------------------------
(* Properties of the conversation store *)

\* the task is between its lock() and the drop of its guard
InSection(t) == tasks[t].pc \in {"locked", "got", "upserted"}

\* C26: every access to the store happens under the one mutex: at most one
\* send_message is between its lock and its unlock, it is the holder of the
\* mutex, and whenever the mutex is free every stored conversation holds
\* exactly the messages appended to it since it was last deleted, in the
\* order of the upserts: no send_message loses the messages of another.
C26_StoreUnderMutex ==
    /\ \A t \in Tasks : InSection(t) <=> mutex = Some(t)
    /\ \A t, u \in Tasks : (InSection(t) /\ InSection(u)) => t = u
    /\ (\A t \in Tasks : ~InSection(t)) =>
          \A id \in ConvIds :
             IF store[id].some THEN store[id].val.messages = committed[id]
             ELSE committed[id] = <<>>

\* two send_message calls for c1 overlapped, the second one to lock waited
\* for its turn, and c1 holds the messages of both
C26_Witness ==
    /\ tasks[1].pc = "done" /\ tasks[2].pc = "done"
    /\ tasks[1].conv_id = "c1" /\ tasks[2].conv_id = "c1"
    /\ tasks[1].overlap
    /\ mutex = None
    /\ store["c1"].some
    /\ store["c1"].val.messages =
          <<StoredMessage("user", tasks[1].message, None)>> \o tasks[1].collected
          \o <<StoredMessage("user", tasks[2].message, None)>> \o tasks[2].collected

\* the stored form of the tool results among the events, in event order
RECURSIVE ToolResultsOf(_)
ToolResultsOf(events) ==
    IF events = <<>> THEN <<>>
    ELSE (IF Head(events).type = "tool_result"
          THEN <<[role |-> "tool", content |-> "Tool: " \o Head(events).tool,
                  tool_result |-> Some([tool |-> Head(events).tool,
                                        success |-> Head(events).success,
                                        output |-> Head(events).output,
                                        args |-> None])]>>
          ELSE <<>>) \o ToolResultsOf(Tail(events))

----------------------------------------------------------------------------
(* Properties of the outer loop of parse_agent_action *)

\* the offsets of the "{" at or after offset from
BracesFrom(t, from) == {i \in from..(Len(t) - 1) : t[i + 1] = "{"}

\* offset i lies strictly inside a balanced candidate met by the scan
Enclosed(i) ==
    \E k \in 1..Len(cands) :
       cands[k].end.some /\ cands[k].start < i /\ i < cands[k].end.val

WellShaped ==
    /\ messages[1] = [role |-> "user", content |-> query, tool_result |-> None]
    /\ Len(messages) = 1 + 2 * Len(tool_calls)
    /\ \A i \in 1..Len(tool_calls) :
          /\ messages[2 * i].role = "tool"
          /\ messages[2 * i].tool_result.val.tool = tool_calls[i].tool
          /\ messages[2 * i + 1].role = "assistant"

C29_ScanTerminates ==
    /\ [][cands' # cands => search_start' > search_start]_vars
    /\ [](search_start <= Len(s) /\ Len(cands) <= Len(s))
    /\ [](p_pc = "fast" => ENABLED ParseFast)
    /\ [](p_pc = "scan" /\ ~FindBrace(s, search_start).some => ENABLED ParseReturn)
    /\ [](p_pc = "scan" /\ search_start = Len(s) => ~FindBrace(s, search_start).some)

\* returned after two iterations, the first on a "{" that is never closed
C29_Witness ==
    /\ p_pc = "done"
    /\ Len(cands) = 2
    /\ ~cands[1].end.some
    /\ search_start > cands[2].start

====
